---- MODULE Spec2Model ----
(***************************************************************************)
(* Verification model of the RTGS real-time GNSS pipeline.                 *)
(*                                                                         *)
(*   core/ring_buffer.py        RingBuffer (bounded FIFO, drop-oldest)     *)
(*   core/rtcm_handler.py       RTCMHandler (ephemeris cache, MSM decode)  *)
(*   core/BE2pos.py             brdc2pos                                   *)
(*   ui/positioning/workers.py  PositioningThread (UTC-second merger)      *)
(*                                                                         *)
(* Three specifications share the variables below:                         *)
(*   SpecRB / FairSpecRB  client threads calling one RingBuffer            *)
(*   SpecDec              decoder threads sharing one RTCMHandler          *)
(*   SpecPos              PositioningThread fed through its RingBuffer     *)
(***************************************************************************)
EXTENDS Integers, Sequences, FiniteSets, TLC

(***************************************************************************)
(* Bounds of the model.                                                    *)
(***************************************************************************)
\* capacity N of the ring buffer under test (RingBuffer(maxsize=N))
maxsize == 2
\* number of client threads that call the ring buffer concurrently
NThreads == 2
\* put calls made in one behaviour: enough to overflow the buffer once
MaxItems == maxsize + 1
\* RTCM messages the decoder threads take in one behaviour
MaxMsgs == 3
\* successful connects of the I/O thread in one behaviour
MaxConnects == 2
\* satellites in an epoch handed to the solver
MaxSats == 5
\* epochs handed to the solver in one behaviour
MaxEpochs == 2
\* cells of one satellite in an observation message
MaxCells == 2
\* largest distance in seconds between the target and the reference time
MaxDt == 70

Threads == 1..NThreads

\* Python's None where an item of the buffer is expected
None == [none |-> TRUE]

\* the n-th item handed to put by a client thread
Item(n) == [id |-> n]

VARIABLES
    \* ---- RingBuffer fields (ring_buffer.py:17-22) ----
    buffer,        \* self.buffer : deque(maxlen=maxsize), oldest item first
    closed,        \* self.closed
    not_empty,     \* waiters of Condition self.not_empty, in arrival order
    not_full,      \* waiters of Condition self.not_full, in arrival order
    \* ---- the threads that call the buffer ----
    pc,            \* position of each thread inside put/get
    arg,           \* arguments of the call a thread is blocked in
    lastRet,       \* the call that returned last: thread, operation, result
    \* ---- history of the buffer (observation only) ----
    nextItem,      \* number of the next item handed to put
    putLog,        \* items in the order they were appended to the deque
    getLog,        \* items in the order get returned them
    nbRun,         \* items put non-blocking since the buffer was last empty
    nbRunOK,       \* no get / blocking put / close interleaved in nbRun
    \* ---- RTCMHandler and the configuration it reads ----
    ephemeris_cache, \* self.ephemeris_cache : satellite key -> ephemeris
    cacheLock,     \* self.lock : the decoder holding it, NoHolder when free
    approx_rec_pos,\* global_config.approx_rec_pos ("zero" = [0, 0, 0])
    \* ---- the decoder threads (DataProcessingThread 'OBS' and 'EPH') ----
    dpc,           \* position of each decoder inside _update_cache
    dmsg,          \* the ephemeris message a decoder is storing
    lastOut,       \* outcome of the last process_message call
    ioStatus,      \* last status_signal(name, connected) of the I/O thread
    \* ---- history of the decoder (observation only) ----
    lastUC,        \* the last compare-and-replace: key, old, new, written
    procLog,       \* per key, the records in the order _update_cache saw them
    updates,       \* per key, the number of writes to the cache
    nMsgs,         \* messages taken by the decoders so far
    nConnects,     \* successful connects of the I/O thread so far
    \* ---- PositioningThread and the UI thread that feeds and stops it ----
    running,       \* self.running
    ptpc,          \* position of PositioningThread.run
    epoch_obs,     \* the value the last get returned to run
    current_epoch_utc, \* self.current_epoch_utc, NoUtc for None
    pending_epoch, \* self.pending_epoch
    uipc,          \* position of the UI thread inside stop_positioning
    \* ---- history of the positioning thread (observation only) ----
    recvSinceFlush,\* fragments taken by run since the solver was last called
    solverLog,     \* epochs passed to _process_epoch, in order
    \* ---- _process_epoch and SPPPositioner.process_epoch ----
    sEpoch,        \* the epoch handed to _process_epoch (satellite states)
    observations,  \* the list _extract_observations returned
    spc,           \* position inside _solve_least_squares
    iteration,     \* the loop counter of _solve_least_squares
    convergence,   \* the flag of _solve_least_squares
    approx_position, \* PositioningThread.approx_position
    last_position, \* PositioningThread.last_position
    position_track,\* PositioningThread.position_track.positions
    emitted,       \* solutions sent on solution_signal, in order
    \* ---- history of the solver (observation only) ----
    nSteps,        \* linearization steps of the current solve
    lastStep,      \* outcome of the last linearization step
    lastSolve,     \* the last finished _process_epoch call
    nEpochs,       \* epochs handed to _process_epoch so far
    \* ---- the life of the pipeline threads ----
    thr_pc,        \* where each thread is in its run method
    thr_running,   \* self.running of each thread
    buf_closed,    \* self.closed of the stream buffer and of the positioning buffer
    thr_erred,     \* whether the thread has handled an error
    thr_resumed,   \* whether the thread has handled input after an error
    stop_pc,       \* the last completed step of stop_positioning
    \* ---- _handle_msm_obs, the signals of one satellite of a message ----
    msm_sat,        \* DF397, DF398, DF399 of the satellite
    sat_data_cache, \* sat_data_cache[prn]: rough range and rough rate
    msm_cell,       \* the fields of the cell decoded last
    msm_signal,     \* the SignalData stored for it, if any
    sat_signals,    \* the pseudoranges of sat_state.signals, in cell order
    n_cells,        \* cells of the satellite decoded so far
    \* ---- _solve_least_squares, the weight matrix ----
    WEIGHT_MODE,    \* SPPPositioner.WEIGHT_MODE
    w_mode,         \* the mode the last solve found set
    w_obs,          \* the observations of the solve: elevation and SNR
    W,              \* the diagonal of the weight matrix built for them
    \* ---- _handle_msm_obs, the loop that creates the satellites ----
    frag_pc,        \* where the loop is: "idle", "brdc2pos", "azel", "done"
    frag_i,         \* index of the satellite being created
    frag_sats,      \* the SatelliteStates created so far and what they read
    \* ---- runge_kutta_4 ----
    rk_pc,          \* "idle", "test" (top of the loop), "step", "returned"
    toe,            \* reference time of the ephemeris
    t_target,       \* time to propagate to
    rk_t,           \* t, the time reached
    rk_h,           \* h, the signed step
    is_last,        \* the step about to be taken reaches t_target
    rk_steps,       \* the steps applied to current_pos, current_vel
    \* ---- _solve_least_squares, the statistics of a solution ----
    stat_done,      \* the statistics of the solution have been computed
    residuals_final, \* one residual per observation; <<>> before a solve
    variance_uow,   \* variance of unit weight, times len(observations) - 4
    cov_matrix,     \* the diagonal of the covariance matrix; <<>> for None
    std_devs,       \* squares of std_x, std_y, std_z, std_clock
    dops            \* squares of gdop, pdop, hdop, vdop, tdop
rbVars == <<buffer, closed, not_empty, not_full, pc, arg, lastRet,
            nextItem, putLog, getLog, nbRun, nbRunOK>>

decVars == <<ephemeris_cache, cacheLock, approx_rec_pos, dpc, dmsg, lastOut,
             ioStatus, lastUC, procLog, updates, nMsgs, nConnects>>

posVars == <<running, ptpc, epoch_obs, current_epoch_utc, pending_epoch, uipc,
             recvSinceFlush, solverLog>>

solVars == <<sEpoch, observations, spc, iteration, convergence,
             approx_position, last_position, position_track, emitted,
             nSteps, lastStep, lastSolve, nEpochs>>

\* the variables outside the ring buffer, the decoder and the merger
thrVars == <<thr_pc, thr_running, buf_closed, thr_erred, thr_resumed, stop_pc>>

msmVars == <<msm_sat, sat_data_cache, msm_cell, msm_signal, sat_signals, n_cells>>

\* the variables of the decoding and solver computations taken on their own
weightVars == <<WEIGHT_MODE, w_mode, w_obs, W>>

fragVars == <<frag_pc, frag_i, frag_sats>>

rkVars == <<rk_pc, toe, t_target, rk_t, rk_h, is_last, rk_steps>>

statVars == <<stat_done, residuals_final, variance_uow, cov_matrix, std_devs, dops>>

pureVars == <<msmVars, weightVars, fragVars, rkVars, statVars>>

extVars == <<solVars, thrVars, pureVars>>

nonRbVars == <<decVars, posVars, extVars>>

vars == <<rbVars, decVars, posVars, extVars>>

(***************************************************************************)
(* Sequence helpers.                                                       *)
(***************************************************************************)
Min(a, b) == IF a <= b THEN a ELSE b

LastN(s, n) == SubSeq(s, Len(s) - n + 1, Len(s))

SeqRemove(s, x) == SelectSeq(s, LAMBDA y : y # x)

Range(s) == {s[i] : i \in 1..Len(s)}

RECURSIVE IsSubseq(_, _)
IsSubseq(s, t) ==
    IF s = <<>> THEN TRUE
    ELSE IF t = <<>> THEN FALSE
    ELSE IF Head(s) = Head(t) THEN IsSubseq(Tail(s), Tail(t))
    ELSE IsSubseq(s, Tail(t))

NoDuplicates(s) == \A i, j \in 1..Len(s) : i # j => s[i] # s[j]

(***************************************************************************)
(* collections.deque(maxlen=maxsize).append : a full deque discards the    *)
(* item at the opposite (left) end.                                        *)
(***************************************************************************)
DequeAppend_DropNewest(buf, item) ==
    IF Len(buf) >= maxsize THEN buf ELSE Append(buf, item)

DequeAppend(buf, item) ==
    IF maxsize = 0 THEN <<>>
    ELSE IF Len(buf) >= maxsize THEN Append(Tail(buf), item)
    ELSE Append(buf, item)

\* deque.popleft : the item returned, and the deque it leaves
PopLeftItem_Newest(buf) == buf[Len(buf)]

PopLeftItem(buf) == Head(buf)

PopLeftRest(buf) == Tail(buf)

(***************************************************************************)
(* threading.Condition as used by the buffer.  A thread in wait() has      *)
(* released the mutex and sits in the waiter list until it is notified or  *)
(* its timeout expires; wait() returns True in the first case and False in *)
(* the second.  A waiter whose timeout expired stays in the list until it  *)
(* has re-acquired the mutex, so notify() can still pick it.               *)
(***************************************************************************)
Notified(p) ==
    CASE p = "put_wait" -> "put_notified"
      [] p = "get_wait" -> "get_notified"
      [] OTHER -> p

\* Condition.notify(n): the first n waiters are released and removed
NotifyPc(pcs, ws, n) ==
    [t \in Threads |->
        IF \E i \in 1..Min(n, Len(ws)) : ws[i] = t THEN Notified(pcs[t])
        ELSE pcs[t]]

NotifyWs(ws, n) == SubSeq(ws, Min(n, Len(ws)) + 1, Len(ws))

\* Condition.notify_all()
NotifyAllPc_Nobody(pcs, ws) == pcs

NotifyAllPc(pcs, ws) == NotifyPc(pcs, ws, Len(ws))

(***************************************************************************)
(* Return records: the thread, the call and its result, and what the       *)
(* buffer looked like when the call was made (calledClosed) and when it    *)
(* returned (sameBuf, emptyAt, headAt, closedAt).                          *)
(***************************************************************************)
NoRet == [thread |-> 0, op |-> "none", val |-> None, block |-> FALSE,
          calledClosed |-> FALSE, sameBuf |-> TRUE, emptyAt |-> TRUE,
          headAt |-> None, closedAt |-> FALSE, timedOut |-> FALSE]

PutRet(t, v, blk, cc, same, to) ==
    [thread |-> t, op |-> "put", val |-> v, block |-> blk, calledClosed |-> cc,
     sameBuf |-> same, emptyAt |-> (buffer = <<>>),
     headAt |-> (IF buffer = <<>> THEN None ELSE Head(buffer)),
     closedAt |-> closed, timedOut |-> to]

GetRet(t, v, blk, cc, to) ==
    [thread |-> t, op |-> "get", val |-> v, block |-> blk, calledClosed |-> cc,
     sameBuf |-> (v = None), emptyAt |-> (buffer = <<>>),
     headAt |-> (IF buffer = <<>> THEN None ELSE Head(buffer)),
     closedAt |-> closed, timedOut |-> to]

NoArg == [item |-> None, tmo |-> FALSE]

\* bookkeeping of nbRun after a step that is not a non-blocking put
RunAfter(buf) ==
    /\ nbRun' = <<>>
    /\ nbRunOK' = (buf = <<>>)

(***************************************************************************)
(* RingBuffer.put(item, block=False)            ring_buffer.py:36-45       *)
(* The whole body runs under the mutex, so it is one step.                 *)
(***************************************************************************)
PutNonBlocking(t, item) ==
    /\ pc[t] = "idle"
    /\ IF closed
       THEN /\ lastRet' = PutRet(t, FALSE, FALSE, TRUE, TRUE, FALSE)
            /\ UNCHANGED <<buffer, not_empty, pc, putLog, nbRun, nbRunOK>>
       ELSE /\ buffer' = DequeAppend(buffer, item)
            /\ pc' = NotifyPc(pc, not_empty, 1)
            /\ not_empty' = NotifyWs(not_empty, 1)
            /\ putLog' = Append(putLog, item)
            /\ nbRun' = IF nbRunOK THEN Append(nbRun, item) ELSE nbRun
            /\ UNCHANGED nbRunOK
            /\ lastRet' = PutRet(t, TRUE, FALSE, FALSE, buffer' = buffer, FALSE)
    /\ UNCHANGED <<closed, not_full, arg, getLog>>

(***************************************************************************)
(* RingBuffer.put(item, block=True, timeout)    ring_buffer.py:36-38,46-53 *)
(* up to the return or to the call of not_full.wait(timeout).              *)
(***************************************************************************)
PutBlocking(t, item, tmo) ==
    /\ pc[t] = "idle"
    /\ IF closed
       THEN /\ lastRet' = PutRet(t, FALSE, TRUE, TRUE, TRUE, FALSE)
            /\ UNCHANGED <<buffer, not_empty, not_full, pc, arg, putLog,
                           nbRun, nbRunOK>>
       ELSE IF Len(buffer) >= maxsize
       THEN /\ not_full' = Append(not_full, t)
            /\ pc' = [pc EXCEPT ![t] = "put_wait"]
            /\ arg' = [arg EXCEPT ![t] = [item |-> item, tmo |-> tmo]]
            /\ UNCHANGED <<buffer, not_empty, lastRet, putLog, nbRun, nbRunOK>>
       ELSE /\ buffer' = DequeAppend(buffer, item)
            /\ pc' = NotifyPc(pc, not_empty, 1)
            /\ not_empty' = NotifyWs(not_empty, 1)
            /\ putLog' = Append(putLog, item)
            /\ RunAfter(buffer')
            /\ lastRet' = PutRet(t, TRUE, TRUE, FALSE, buffer' = buffer, FALSE)
            /\ UNCHANGED <<not_full, arg>>
    /\ UNCHANGED <<closed, getLog>>

(***************************************************************************)
(* The timeout of a wait(timeout) expires: wait() will return False.  The  *)
(* thread still has to re-acquire the mutex and is still in the waiter     *)
(* list.                                       ring_buffer.py:49, 77       *)
(***************************************************************************)
WaitTimeout(t) ==
    /\ pc[t] \in {"put_wait", "get_wait"}
    /\ arg[t].tmo
    /\ pc' = [pc EXCEPT ![t] = IF pc[t] = "put_wait" THEN "put_timedout"
                               ELSE "get_timedout"]
    /\ UNCHANGED <<buffer, closed, not_empty, not_full, arg, lastRet,
                   putLog, getLog, nbRun, nbRunOK>>

(***************************************************************************)
(* A blocked put leaves not_full.wait: it re-acquires the mutex and runs   *)
(* to the return.                              ring_buffer.py:49-53        *)
(***************************************************************************)
PutResume(t) ==
    /\ pc[t] \in {"put_notified", "put_timedout"}
    /\ IF pc[t] = "put_timedout"
       THEN /\ not_full' = SeqRemove(not_full, t)
            /\ pc' = [pc EXCEPT ![t] = "idle"]
            /\ lastRet' = PutRet(t, FALSE, TRUE, FALSE, TRUE, TRUE)
            /\ UNCHANGED <<buffer, not_empty, putLog, nbRun, nbRunOK>>
       ELSE /\ buffer' = DequeAppend(buffer, arg[t].item)
            /\ pc' = [NotifyPc(pc, not_empty, 1) EXCEPT ![t] = "idle"]
            /\ not_empty' = NotifyWs(not_empty, 1)
            /\ putLog' = Append(putLog, arg[t].item)
            /\ RunAfter(buffer')
            /\ lastRet' = PutRet(t, TRUE, TRUE, FALSE, buffer' = buffer, FALSE)
            /\ UNCHANGED not_full
    /\ arg' = [arg EXCEPT ![t] = NoArg]
    /\ UNCHANGED <<closed, getLog>>

(***************************************************************************)
(* RingBuffer.get(block=False)                  ring_buffer.py:66-72       *)
(***************************************************************************)
GetNonBlocking(t) ==
    /\ pc[t] = "idle"
    /\ IF Len(buffer) = 0
       THEN /\ lastRet' = GetRet(t, None, FALSE, closed, FALSE)
            /\ UNCHANGED <<buffer, not_full, pc, getLog, nbRun, nbRunOK>>
       ELSE /\ buffer' = PopLeftRest(buffer)
            /\ getLog' = Append(getLog, PopLeftItem(buffer))
            /\ pc' = NotifyPc(pc, not_full, 1)
            /\ not_full' = NotifyWs(not_full, 1)
            /\ RunAfter(buffer')
            /\ lastRet' = GetRet(t, PopLeftItem(buffer), FALSE, closed, FALSE)
    /\ UNCHANGED <<closed, not_empty, arg, putLog>>

(***************************************************************************)
(* The loop of a blocking get, entered with the mutex held: at the call    *)
(* and again after every notified wait.         ring_buffer.py:74-81       *)
(***************************************************************************)
GetLoop_ClosedFirst(t, tmo, cc) ==
    IF closed
    THEN /\ pc' = [pc EXCEPT ![t] = "idle"]
         /\ arg' = [arg EXCEPT ![t] = NoArg]
         /\ lastRet' = GetRet(t, None, TRUE, cc, FALSE)
         /\ UNCHANGED <<buffer, not_empty, not_full, getLog, nbRun, nbRunOK>>
    ELSE IF Len(buffer) = 0
    THEN /\ not_empty' = Append(not_empty, t)
         /\ pc' = [pc EXCEPT ![t] = "get_wait"]
         /\ arg' = [arg EXCEPT ![t] = [item |-> None, tmo |-> tmo]]
         /\ UNCHANGED <<buffer, not_full, lastRet, getLog, nbRun, nbRunOK>>
    ELSE /\ buffer' = PopLeftRest(buffer)
         /\ getLog' = Append(getLog, PopLeftItem(buffer))
         /\ pc' = [NotifyPc(pc, not_full, 1) EXCEPT ![t] = "idle"]
         /\ not_full' = NotifyWs(not_full, 1)
         /\ arg' = [arg EXCEPT ![t] = NoArg]
         /\ RunAfter(buffer')
         /\ lastRet' = GetRet(t, PopLeftItem(buffer), TRUE, cc, FALSE)
         /\ UNCHANGED not_empty

GetLoop(t, tmo, cc) ==
    IF Len(buffer) = 0
    THEN IF closed
         THEN /\ pc' = [pc EXCEPT ![t] = "idle"]
              /\ arg' = [arg EXCEPT ![t] = NoArg]
              /\ lastRet' = GetRet(t, None, TRUE, cc, FALSE)
              /\ UNCHANGED <<buffer, not_empty, not_full, getLog, nbRun, nbRunOK>>
         ELSE /\ not_empty' = Append(not_empty, t)
              /\ pc' = [pc EXCEPT ![t] = "get_wait"]
              /\ arg' = [arg EXCEPT ![t] = [item |-> None, tmo |-> tmo]]
              /\ UNCHANGED <<buffer, not_full, lastRet, getLog, nbRun, nbRunOK>>
    ELSE /\ buffer' = PopLeftRest(buffer)
         /\ getLog' = Append(getLog, PopLeftItem(buffer))
         /\ pc' = [NotifyPc(pc, not_full, 1) EXCEPT ![t] = "idle"]
         /\ not_full' = NotifyWs(not_full, 1)
         /\ arg' = [arg EXCEPT ![t] = NoArg]
         /\ RunAfter(buffer')
         /\ lastRet' = GetRet(t, PopLeftItem(buffer), TRUE, cc, FALSE)
         /\ UNCHANGED not_empty

\* RingBuffer.get(block=True, timeout)
GetBlocking(t, tmo) ==
    /\ pc[t] = "idle"
    /\ GetLoop(t, tmo, closed)
    /\ UNCHANGED <<closed, putLog>>

\* a blocked get leaves not_empty.wait          ring_buffer.py:77-81
GetResume(t) ==
    /\ pc[t] \in {"get_notified", "get_timedout"}
    /\ IF pc[t] = "get_timedout"
       THEN /\ not_empty' = SeqRemove(not_empty, t)
            /\ pc' = [pc EXCEPT ![t] = "idle"]
            /\ arg' = [arg EXCEPT ![t] = NoArg]
            /\ lastRet' = GetRet(t, None, TRUE, FALSE, TRUE)
            /\ UNCHANGED <<buffer, not_full, getLog, nbRun, nbRunOK>>
       ELSE GetLoop(t, arg[t].tmo, FALSE)
    /\ UNCHANGED <<closed, putLog>>

(***************************************************************************)
(* RingBuffer.close()                           ring_buffer.py:98-102      *)
(***************************************************************************)
Close(t) ==
    /\ pc[t] = "idle"
    /\ closed' = TRUE
    /\ pc' = NotifyAllPc(NotifyAllPc(pc, not_empty), not_full)
    /\ not_empty' = <<>>
    /\ not_full' = <<>>
    /\ nbRun' = <<>>
    /\ nbRunOK' = FALSE
    /\ lastRet' = [NoRet EXCEPT !.thread = t, !.op = "close"]
    /\ UNCHANGED <<buffer, arg, putLog, getLog>>

(***************************************************************************)
(* RingBuffer.clear()                           ring_buffer.py:104-107     *)
(***************************************************************************)
Clear(t) ==
    /\ pc[t] = "idle"
    /\ buffer' = <<>>
    /\ pc' = NotifyAllPc(pc, not_full)
    /\ not_full' = <<>>
    /\ RunAfter(buffer')
    /\ lastRet' = [NoRet EXCEPT !.thread = t, !.op = "clear"]
    /\ UNCHANGED <<closed, not_empty, arg, putLog, getLog>>

(***************************************************************************)
(* RTCM messages as the decoder sees them (pyrtcm objects with flattened   *)
(* DFxxx attributes).                                                      *)
(***************************************************************************)
\* the DataProcessingThreads that share the RTCMHandler
Decoders == {"OBS", "EPH"}

NoHolder == "free"

\* PRNs that occur in the modelled stream; ephemerides are sent for PRN 1
Prns == {1, 2}

EphPrns == {1}

\* values of the reference-time field (DF093 Toe, DF110 tb)
RefTimes == {100, 200}

\* GlobalConfig.target_systems
target_systems == {"G", "R", "E", "C"}

\* satellite key f"{sys}{prn:02d}"
SatKey(sys, prn) == <<sys, prn>>

SatKeys == {SatKey(sys, prn) : sys \in {"G", "R"}, prn \in Prns}
               \cup {SatKey("C", 1)}

\* msg_id[:3] of the identities that occur in the modelled stream
Prefix3(id) ==
    CASE id \in {"1074", "1077"} -> "107"
      [] id = "1087" -> "108"
      [] id = "1097" -> "109"
      [] id = "1117" -> "111"
      [] id = "1127" -> "112"
      [] id = "1137" -> "113"
      [] id \in {"1005", "1006"} -> "100"
      [] id \in {"1019", "1020"} -> "101"
      [] id \in {"1042", "1045", "1046"} -> "104"
      [] id = "1230" -> "123"
      [] OTHER -> id

MsmPrefixes == {"107", "108", "109", "111", "112", "113"}

\* which branch process_message takes for a message identity
Dispatch(id) ==
    CASE id = "1019" -> "gps_eph"
      [] id = "1020" -> "glo_eph"
      [] id \in {"1045", "1046"} -> "gal_eph"
      [] id \in {"1042", "63"} -> "bds_eph"
      [] Prefix3(id) \in MsmPrefixes -> "msm"
      [] id \in {"1005", "1006"} -> "station"
      [] OTHER -> "ignored"

\* sys_config of _handle_msm_obs: prefix -> system letter
SysConfigPrefixes == {"107", "108", "109", "111", "112"}

SysOfPrefix(prefix) ==
    CASE prefix = "107" -> "G"
      [] prefix = "108" -> "R"
      [] prefix = "109" -> "E"
      [] prefix = "111" -> "J"
      [] prefix = "112" -> "C"

\* system letter and time tag of the four ephemeris handlers
EphSys(handler) ==
    CASE handler = "gps_eph" -> "G"
      [] handler = "glo_eph" -> "R"
      [] handler = "gal_eph" -> "E"
      [] handler = "bds_eph" -> "C"

EphTag(handler) == IF handler = "glo_eph" THEN "Tb" ELSE "Toe"

\* ephemeris messages: complete = every DF attribute the handler reads exists
EphMsgs ==
    {[id |-> i, prn |-> p, complete |-> TRUE, ref |-> r] :
        i \in {"1019", "1020"}, p \in EphPrns, r \in RefTimes}
    \cup {[id |-> "1019", prn |-> 1, complete |-> FALSE, ref |-> 100],
          [id |-> "63", prn |-> 1, complete |-> TRUE, ref |-> 100]}

\* observation messages: identity, presence of the epoch-time field, the
\* CELLPRN_nn attributes in order
MsmMsgs ==
    {[id |-> "1077", hasTime |-> TRUE,  cells |-> <<1, 2, 1>>],
     [id |-> "1077", hasTime |-> TRUE,  cells |-> <<>>],
     [id |-> "1077", hasTime |-> FALSE, cells |-> <<1, 2, 1>>],
     [id |-> "1074", hasTime |-> TRUE,  cells |-> <<1, 2, 1>>],
     [id |-> "1087", hasTime |-> TRUE,  cells |-> <<1, 2, 1>>],
     [id |-> "1117", hasTime |-> TRUE,  cells |-> <<1, 2, 1>>],
     [id |-> "1137", hasTime |-> TRUE,  cells |-> <<1, 2, 1>>]}

\* 1005/1006: DF025..DF027 present or not, and whether they are all zero
StationMsgs ==
    {[id |-> "1005", hasDF025 |-> TRUE,  pos |-> "nonzero"],
     [id |-> "1006", hasDF025 |-> TRUE,  pos |-> "zero"],
     [id |-> "1005", hasDF025 |-> FALSE, pos |-> "zero"]}

OtherMsgs == {[id |-> "1230"]}

(***************************************************************************)
(* Ephemeris records.  ver tells two records with the same reference time  *)
(* apart (it stands for the other fields of the dict).                     *)
(***************************************************************************)
NoEph == [tag |-> "none", ref |-> -1, ver |-> 0]

Eph(tag, ref, ver) == [tag |-> tag, ref |-> ref, ver |-> ver]

\* dict.get(time_tag_key): None when the dict has no such key
EphGet(eph, tag) == IF eph.tag = tag THEN eph.ref ELSE -1

\* the test of _update_cache                    rtcm_handler.py:49-55
ShouldReplace_Always(old, new, tag) == TRUE

ShouldReplace(old, new, tag) ==
    \/ old = NoEph
    \/ EphGet(new, tag) # EphGet(old, tag)

\* ephemeris_cache.get(key): NoEph when the key is not in the cache
CacheGet(cache, key) == IF key \in DOMAIN cache THEN cache[key] ELSE NoEph

\* threading.Lock: acquire succeeds only on a free lock
LockFree_Always(l) == TRUE

LockFree(l) == l = NoHolder

(***************************************************************************)
(* BE2pos.brdc2pos: no position while approx_rec_pos is all zeros,          *)
(* otherwise the propagated ECEF position.      BE2pos.py:18-29            *)
(***************************************************************************)
brdc2pos(eph, rec_pos) == IF rec_pos = "zero" THEN "None" ELSE "ecef"

\* SatelliteState of a satellite first seen in a message  rtcm_handler.py:368-391
SatState_IgnoresReceiver(key, cache, rec_pos) ==
    [sat_pos_ecef |-> IF CacheGet(cache, key) # NoEph THEN "ecef" ELSE "None",
     azel |-> IF CacheGet(cache, key) # NoEph THEN "set" ELSE "None"]

SatState(key, cache, rec_pos) ==
    LET sat_pos == IF CacheGet(cache, key) # NoEph
                   THEN brdc2pos(CacheGet(cache, key), rec_pos)
                   ELSE "None"
    IN [sat_pos_ecef |-> sat_pos,
        azel |-> IF sat_pos # "None" /\ rec_pos # "zero" THEN "set" ELSE "None"]

\* dataclass EpochObservation                   data_models.py:36-42
EpochObservationFields == {"gps_time", "satellites"}

\* the generated __init__ raises TypeError for an unknown keyword
CtorAccepts(kwargs) == kwargs \subseteq EpochObservationFields

(***************************************************************************)
(* RTCMHandler._handle_msm_obs                  rtcm_handler.py:290-464    *)
(* kind: "none" (returns None), "raised" (exception) or "epoch".           *)
(***************************************************************************)
MsmResult(kind, sats) == [kind |-> kind, sats |-> sats]

HandleMsmObs(msg, cache, rec_pos) ==
    LET prefix == Prefix3(msg.id)
        sys_id == SysOfPrefix(prefix)
        keys   == {SatKey(sys_id, msg.cells[i]) : i \in 1..Len(msg.cells)}
    IN  IF prefix \notin SysConfigPrefixes THEN MsmResult("none", <<>>)
        ELSE IF sys_id \notin target_systems THEN MsmResult("none", <<>>)
        ELSE IF ~msg.hasTime THEN MsmResult("none", <<>>)
        ELSE IF ~CtorAccepts({"gps_time", "utc_datetime"})
             THEN MsmResult("raised", <<>>)
        ELSE IF Len(msg.cells) = 0 THEN MsmResult("none", <<>>)
        ELSE MsmResult("epoch", [k \in keys |-> SatState(k, cache, rec_pos)])

\* an MSM message of a target system with its epoch time and a cell
Decodable(msg) ==
    /\ Prefix3(msg.id) \in SysConfigPrefixes
    /\ SysOfPrefix(Prefix3(msg.id)) \in target_systems
    /\ msg.hasTime
    /\ Len(msg.cells) > 0

MsgKeys(msg) ==
    IF Prefix3(msg.id) \in SysConfigPrefixes
    THEN {SatKey(SysOfPrefix(Prefix3(msg.id)), msg.cells[i]) :
              i \in 1..Len(msg.cells)}
    ELSE {}

NoOut == [dec |-> "none", id |-> "none", handler |-> "none", kind |-> "none",
          sats |-> <<>>, decodable |-> FALSE, cached |-> {}, msgKeys |-> {},
          changed |-> FALSE]

\* whether the step changes the ephemeris cache or the approximate position
Changed ==
    \/ ephemeris_cache' # ephemeris_cache
    \/ approx_rec_pos' # approx_rec_pos

\* the outcome of a call that returned None
ReturnedNone(d, id) ==
    [NoOut EXCEPT !.dec = d, !.id = id, !.handler = Dispatch(id),
                  !.changed = Changed]

NoUC == [key |-> <<"-", 0>>, old |-> NoEph, new |-> NoEph, written |-> FALSE]

NoMsg == [id |-> "none"]

(***************************************************************************)
(* process_message for 1019/1020/1042/1045/1046: the handler builds the    *)
(* dict (AttributeError: the message is skipped) and calls _update_cache,  *)
(* which takes self.lock, compares and replaces.  rtcm_handler.py:47-56    *)
(***************************************************************************)
D_EphIncomplete(d, msg) ==
    /\ dpc[d] = "idle"
    /\ nMsgs < MaxMsgs
    /\ ~msg.complete
    /\ nMsgs' = nMsgs + 1
    /\ UNCHANGED <<ephemeris_cache, cacheLock, approx_rec_pos, dpc, dmsg,
                   ioStatus, lastUC, procLog, updates, nConnects>>
    /\ lastOut' = ReturnedNone(d, msg.id)

\* with self.lock:
D_UpdateCacheAcquire(d, msg) ==
    /\ dpc[d] = "idle"
    /\ nMsgs < MaxMsgs
    /\ msg.complete
    /\ LockFree(cacheLock)
    /\ cacheLock' = d
    /\ dpc' = [dpc EXCEPT ![d] = "uc_compare"]
    /\ dmsg' = [dmsg EXCEPT ![d] = msg]
    /\ nMsgs' = nMsgs + 1
    /\ UNCHANGED <<ephemeris_cache, approx_rec_pos, lastOut, ioStatus, lastUC,
                   procLog, updates, nConnects>>

\* if key not in cache ... elif new.get(tag) != old.get(tag)
D_UpdateCacheCompare(d) ==
    /\ dpc[d] = "uc_compare"
    /\ LET handler == Dispatch(dmsg[d].id)
           key == SatKey(EphSys(handler), dmsg[d].prn)
           new == Eph(EphTag(handler), dmsg[d].ref, nMsgs)
       IN  /\ dpc' = [dpc EXCEPT ![d] =
                        IF ShouldReplace(ephemeris_cache[key], new, EphTag(handler))
                        THEN "uc_write" ELSE "uc_skip"]
           /\ dmsg' = [dmsg EXCEPT ![d] =
                         [id |-> dmsg[d].id, prn |-> dmsg[d].prn,
                          complete |-> TRUE, ref |-> dmsg[d].ref, new |-> new]]
           /\ procLog' = [procLog EXCEPT ![key] = Append(@, new)]
    /\ UNCHANGED <<ephemeris_cache, cacheLock, approx_rec_pos, lastOut,
                   ioStatus, lastUC, updates, nMsgs, nConnects>>

\* self.ephemeris_cache[key] = new_eph (or nothing), then the lock is released
D_UpdateCacheWrite(d) ==
    /\ dpc[d] \in {"uc_write", "uc_skip"}
    /\ LET handler == Dispatch(dmsg[d].id)
           key == SatKey(EphSys(handler), dmsg[d].prn)
           new == dmsg[d].new
       IN  /\ IF dpc[d] = "uc_write"
              THEN /\ ephemeris_cache' = [ephemeris_cache EXCEPT ![key] = new]
                   /\ updates' = [updates EXCEPT ![key] = @ + 1]
              ELSE UNCHANGED <<ephemeris_cache, updates>>
           /\ lastUC' = [key |-> key, old |-> ephemeris_cache[key], new |-> new,
                         written |-> (dpc[d] = "uc_write")]
    /\ cacheLock' = NoHolder
    /\ dpc' = [dpc EXCEPT ![d] = "idle"]
    /\ dmsg' = [dmsg EXCEPT ![d] = NoMsg]
    /\ UNCHANGED <<approx_rec_pos, ioStatus, procLog, nMsgs, nConnects>>
    /\ lastOut' = ReturnedNone(d, dmsg[d].id)

\* process_message for an MSM identity          rtcm_handler.py:39-40
D_Msm(d, msg) ==
    /\ dpc[d] = "idle"
    /\ nMsgs < MaxMsgs
    /\ Dispatch(msg.id) = "msm"
    /\ nMsgs' = nMsgs + 1
    /\ UNCHANGED <<ephemeris_cache, cacheLock, approx_rec_pos, dpc, dmsg,
                   ioStatus, lastUC, procLog, updates, nConnects>>
    /\ LET r == HandleMsmObs(msg, ephemeris_cache, approx_rec_pos)
       IN  lastOut' = [dec |-> d, id |-> msg.id, handler |-> "msm",
                       kind |-> r.kind,
                       sats |-> r.sats, decodable |-> Decodable(msg),
                       cached |-> {k \in MsgKeys(msg) :
                                      CacheGet(ephemeris_cache, k) # NoEph},
                       msgKeys |-> MsgKeys(msg), changed |-> Changed]

\* process_message for 1005/1006                rtcm_handler.py:43-45
D_Station(d, msg) ==
    /\ dpc[d] = "idle"
    /\ nMsgs < MaxMsgs
    /\ Dispatch(msg.id) = "station"
    /\ approx_rec_pos' = IF msg.hasDF025 THEN msg.pos ELSE approx_rec_pos
    /\ nMsgs' = nMsgs + 1
    /\ UNCHANGED <<ephemeris_cache, cacheLock, dpc, dmsg, ioStatus, lastUC,
                   procLog, updates, nConnects>>
    /\ lastOut' = ReturnedNone(d, msg.id)

\* process_message for any other identity: no branch matches
D_Other(d, msg) ==
    /\ dpc[d] = "idle"
    /\ nMsgs < MaxMsgs
    /\ Dispatch(msg.id) = "ignored"
    /\ nMsgs' = nMsgs + 1
    /\ UNCHANGED <<ephemeris_cache, cacheLock, approx_rec_pos, dpc, dmsg,
                   ioStatus, lastUC, procLog, updates, nConnects>>
    /\ lastOut' = ReturnedNone(d, msg.id)

(***************************************************************************)
(* The I/O thread's connection as its status_signal reports it: a          *)
(* successful connect, then a read error or end of stream and the next     *)
(* attempt.  The thread holds no reference to the RTCMHandler.             *)
(*                                              workers.py:130-202         *)
(***************************************************************************)
IO_Connected ==
    /\ ~ioStatus
    /\ nConnects < MaxConnects
    /\ ioStatus' = TRUE
    /\ nConnects' = nConnects + 1
    /\ UNCHANGED <<ephemeris_cache, cacheLock, approx_rec_pos, dpc, dmsg,
                   lastOut, lastUC, procLog, updates, nMsgs>>

IO_Disconnected ==
    /\ ioStatus
    /\ ioStatus' = FALSE
    /\ UNCHANGED <<ephemeris_cache, cacheLock, approx_rec_pos, dpc, dmsg,
                   lastOut, lastUC, procLog, updates, nMsgs, nConnects>>

(***************************************************************************)
(* SPPPositioner and PositioningThread._process_epoch.  Positions are      *)
(* named after the epoch whose solve produced them; pseudoranges and       *)
(* elevations are small integers (metres, degrees).                        *)
(***************************************************************************)
\* SPPPositioner class constants                 spp_positioning.py:83-86
MAX_ITERATIONS == 10

MIN_SATELLITES == 4

MIN_ELEVATION == 10

\* PositioningThread.min_satellites              positioning/workers.py:92
min_satellites == 4

\* what the stream can say about one satellite of an epoch: is its ephemeris
\* cached, its elevation seen from the receiver, the pseudoranges of its
\* signals in dict order (0 = the decoder's value for an invalid range)
SatDescs ==
    << [cached |-> TRUE,  elv |-> 45, prs |-> <<20>>],
       [cached |-> TRUE,  elv |-> 10, prs |-> <<0, 20>>],
       [cached |-> FALSE, elv |-> 45, prs |-> <<20>>],
       [cached |-> TRUE,  elv |-> 5,  prs |-> <<20>>],
       [cached |-> TRUE,  elv |-> 45, prs |-> <<0>>],
       [cached |-> TRUE,  elv |-> 45, prs |-> <<>>] >>

\* the epochs of one behaviour: up to MaxSats satellites, listed by kind
EpochDescs ==
    {d \in UNION {[1..n -> 1..Len(SatDescs)] : n \in 0..MaxSats} :
        \A i \in 1..Len(d) : \A j \in 1..Len(d) : i <= j => d[i] <= d[j]}

\* the SatelliteState the decoder builds for satellite i of an epoch
\*                                               rtcm_handler.py:368-391, 455-462
SatelliteOf(i, desc, rec_pos) ==
    LET cache == [k \in {i} |-> IF desc.cached THEN Eph("Toe", 100, 1) ELSE NoEph]
        st == SatState(i, cache, rec_pos)
    IN  [sat_pos_ecef |-> st.sat_pos_ecef,
         hasElevation |-> st.azel = "set",
         elevation |-> IF st.azel = "set" THEN desc.elv ELSE 0,
         signals |-> desc.prs]

BuildEpoch(n, d, rec_pos) ==
    [id |-> n, rec_pos |-> rec_pos,
     satellites |-> [i \in 1..Len(d) |-> SatelliteOf(i, SatDescs[d[i]], rec_pos)]]

\* the first signal with pseudorange > 0, 0 for none  spp_positioning.py:182-200
FirstValidPseudorange(signals) ==
    LET valid == SelectSeq(signals, LAMBDA pr : pr > 0)
    IN  IF valid = <<>> THEN 0 ELSE Head(valid)

\* the tests of _extract_observations            spp_positioning.py:159-203
Accepted_NoElevationTest(sat) ==
    /\ sat.sat_pos_ecef # "None"
    /\ sat.signals # <<>>
    /\ sat.hasElevation
    /\ FirstValidPseudorange(sat.signals) > 0

Accepted(sat) ==
    /\ sat.sat_pos_ecef # "None"
    /\ sat.signals # <<>>
    /\ sat.hasElevation
    /\ ~(sat.elevation < MIN_ELEVATION)
    /\ FirstValidPseudorange(sat.signals) > 0

RECURSIVE ExtractFrom(_, _)
ExtractFrom(sats, i) ==
    IF i > Len(sats) THEN <<>>
    ELSE IF Accepted(sats[i])
         THEN <<[sat_key |-> i,
                 pseudorange |-> FirstValidPseudorange(sats[i].signals),
                 elevation |-> sats[i].elevation,
                 sat_pos |-> sats[i].sat_pos_ecef]>> \o ExtractFrom(sats, i + 1)
         ELSE ExtractFrom(sats, i + 1)

\* the satellites of an epoch with a position, an elevation of at least the
\* cutoff and a signal with a positive pseudorange
UsableSatellites(epoch) ==
    {i \in 1..Len(epoch.satellites) :
        LET sat == epoch.satellites[i]
        IN  /\ sat.sat_pos_ecef # "None"
            /\ sat.hasElevation
            /\ sat.elevation >= MIN_ELEVATION
            /\ \E j \in 1..Len(sat.signals) : sat.signals[j] > 0}

\* SPPPositioner._extract_observations (None is the empty list)
ExtractObservations(epoch) == ExtractFrom(epoch.satellites, 1)

\* if observations is None or len(observations) < self.MIN_SATELLITES
Insufficient(obs) == obs = <<>> \/ Len(obs) < MIN_SATELLITES

\* while iteration < self.MAX_ITERATIONS          spp_positioning.py:238
MayIterate(i) == i < MAX_ITERATIONS

\* if pos_change < self.CONVERGENCE_THRESHOLD: convergence = True
ConvergedBy_AnyStep(outcome) == TRUE

ConvergedBy(outcome) == outcome = "small"

\* solution_status of _solve_least_squares        spp_positioning.py:371-377
SolutionStatusOf(conv, n) ==
    IF conv /\ n >= MIN_SATELLITES THEN "Fixed"
    ELSE IF n >= MIN_SATELLITES THEN "Uncertain"
    ELSE "No Fix"

\* status of _convert_result_to_solution          positioning/workers.py:256-262
ConvertStatus_AlwaysFixed(conv, n) == "FIXED"

ConvertStatus(conv, n) ==
    IF conv /\ n >= min_satellites THEN "FIXED"
    ELSE IF n >= min_satellites THEN "UNCERTAIN"
    ELSE "NO_FIX"

NoResult == [none |-> TRUE]

\* self.approx_position after _process_epoch      positioning/workers.py:232-236
ApproxAfter_Always(result, approx, n) == n

ApproxAfter(result, approx, n) == IF result = NoResult THEN approx ELSE n

\* the configured initial guess; a solved position is named by its epoch >= 1
DefaultPosition == 0

NoSolve == [epoch |-> 0, result |-> "none", cause |-> "none", nSats |-> 0,
            usable |-> 0,
            approxBefore |-> DefaultPosition,
            lastBefore |-> NoResult, trackBefore |-> <<>>,
            emittedBefore |-> <<>>]

\* SPPPositioner.__init__, PositioningThread.__init__ (solver side)
InitSolver ==
    /\ sEpoch = None
    /\ observations = <<>>
    /\ spc = "idle"
    /\ iteration = 0
    /\ convergence = FALSE
    /\ approx_position = DefaultPosition
    /\ last_position = NoResult
    /\ position_track = <<>>
    /\ emitted = <<>>
    /\ nSteps = 0
    /\ lastStep = "none"
    /\ lastSolve = NoSolve
    /\ nEpochs = 0

\* the threads of the pipeline and the buffer each one works on
IOThread == "IOThread"

DataProcessingThread == "DataProcessingThread"

PositioningThread == "PositioningThread"

PipelineThreads == {IOThread, DataProcessingThread, PositioningThread}

Buffers == {"OBS", "positioning"}

BufferOf(t) == IF t = PositioningThread THEN "positioning" ELSE "OBS"

\* where run continues after an except clause of its loop has handled an
\* error: the next test of the while condition
AfterError_Exits(t) == "exited"

AfterError(t) == "loop"

\* the threads as start_streams and start_positioning start them: running,
\* buffers open, the I/O thread about to create its client
InitThreads ==
    /\ thr_pc = [t \in PipelineThreads |-> IF t = IOThread THEN "start" ELSE "loop"]
    /\ thr_running = [t \in PipelineThreads |-> TRUE]
    /\ buf_closed = [b \in Buffers |-> FALSE]
    /\ thr_erred = [t \in PipelineThreads |-> FALSE]
    /\ thr_resumed = [t \in PipelineThreads |-> FALSE]
    /\ stop_pc = "none"

(***************************************************************************)
(* _handle_msm_obs, the observation fields.  rtcm_handler.py:411-462       *)
(* A field read with getattr(msg, name, None) is a record: present or not, *)
(* and its value.  Every range of the code is a multiple of RANGE_MS and   *)
(* is kept here as that multiple (light-milliseconds); rates are in units  *)
(* of 1e-4 m/s; phase and Doppler are kept as the numerator of the         *)
(* division by CLIGHT, with freq in MHz.                                   *)
(***************************************************************************)
Absent == [present |-> FALSE, v |-> 0]

Field(v) == [present |-> TRUE, v |-> v]

\* r_sat                                        rtcm_handler.py:416-418
RoughRange_NoSentinel(rng_int, rng_mod) ==
    IF rng_int.present THEN rng_int.v + rng_mod ELSE 0

RoughRange(rng_int, rng_mod) ==
    IF rng_int.present /\ rng_int.v # 255
    THEN rng_int.v + rng_mod
    ELSE 0

\* rr_sat                                       rtcm_handler.py:420-422
RoughRate(rate_rough) ==
    IF rate_rough.present /\ rate_rough.v # -8192 THEN rate_rough.v ELSE 0

\* pseudorange                                  rtcm_handler.py:429-432
Pseudorange(rough_range, pr_fine) ==
    IF rough_range # 0 /\ pr_fine.present /\ pr_fine.v # -524288
    THEN rough_range + pr_fine.v
    ELSE 0

\* carrier_phase, times 1000                    rtcm_handler.py:434-439
CarrierPhase(rough_range, cp_fine, freq) ==
    IF rough_range # 0 /\ cp_fine.present /\ cp_fine.v # -8388608
    THEN IF freq > 0 THEN (rough_range + cp_fine.v) * freq ELSE 0
    ELSE 0

\* doppler, times CLIGHT and 1e4                rtcm_handler.py:441-446
Doppler(rough_rate, rr_fine, freq) ==
    IF rough_rate # -8192 /\ rr_fine.present /\ rr_fine.v # -16384
    THEN IF freq > 0 THEN -(rough_rate * 10000 + rr_fine.v) * freq ELSE 0
    ELSE 0

\* the satellite-level fields of a message: DF397 (absent, the sentinel 255,
\* zero or one millisecond), DF398 (whole milliseconds here), DF399
SatFields ==
    [DF397 : {Absent, Field(255), Field(0), Field(1)},
     DF398 : {0, 1},
     DF399 : {Absent, Field(-8192), Field(5)}]

\* the fields of one cell; freq is what get_freq gives for CELLSIG (0 for an
\* unknown band, else MHz)
CellFields ==
    [DF405 : {Absent, Field(-524288), Field(2)},
     DF406 : {Absent, Field(-8388608), Field(3)},
     DF404 : {Absent, Field(-16384), Field(100)},
     DF408 : {0, 40},
     freq  : {0, 1575}]

NoCache == [filled |-> FALSE, r |-> 0, rr |-> 0]

NoCell == [DF405 |-> Absent, DF406 |-> Absent, DF404 |-> Absent, DF408 |-> 0,
           freq |-> 0]

NoSignal == [stored |-> FALSE, pseudorange |-> 0, phase |-> 0, doppler |-> 0,
             snr |-> 0]

\* the SignalData of a cell, stored when snr > 0 or carrier_phase != 0
\*                                              rtcm_handler.py:424-462
SignalOf(cache, cell) ==
    LET pseudorange == Pseudorange(cache.r, cell.DF405)
        carrier_phase == CarrierPhase(cache.r, cell.DF406, cell.freq)
        doppler == Doppler(cache.rr, cell.DF404, cell.freq)
    IN  IF cell.DF408 > 0 \/ carrier_phase # 0
        THEN [stored |-> TRUE, pseudorange |-> pseudorange,
              phase |-> carrier_phase, doppler |-> doppler, snr |-> cell.DF408]
        ELSE NoSignal

\* no message is being decoded
InitMsmIdle ==
    /\ msm_sat = [DF397 |-> Absent, DF398 |-> 0, DF399 |-> Absent]
    /\ sat_data_cache = NoCache
    /\ msm_cell = NoCell
    /\ msm_signal = NoSignal
    /\ sat_signals = <<>>
    /\ n_cells = 0

(***************************************************************************)
(* _solve_least_squares, the weights.  spp_positioning.py:243-277          *)
(* Elevations are whole degrees; 1/sin^2(el) is exact for those used.      *)
(***************************************************************************)
WeightModes == {"equal", "elevation", "snr"}

Elevations == {0, 30, 45, 90}

\* SNR in dB-Hz
SnrValues == {25, 38, 50}

WeightObs == [elevation : Elevations, snr : SnrValues]

\* math.sin(math.radians(el)) > 0
SinPositive(el) == 0 < el /\ el < 180

\* 1.0 / (sin_el ** 2)
InvSinSquared(el) ==
    CASE el = 30 -> 4
      [] el = 45 -> 2
      [] el = 90 -> 1

\* W[i, i]: np.eye, changed only in 'elevation' mode
\*                                              spp_positioning.py:243, 269-277
WeightOf(mode, obs) ==
    IF mode = "elevation"
    THEN IF SinPositive(obs.elevation) THEN InvSinSquared(obs.elevation)
         ELSE 1
    ELSE 1

InitWeightIdle ==
    /\ WEIGHT_MODE = "elevation"
    /\ w_mode = "none"
    /\ w_obs = <<>>
    /\ W = <<>>

(***************************************************************************)
(* _handle_msm_obs, the creation of the satellites of a fragment,          *)
(* rtcm_handler.py:368-391, one step per read of config.approx_rec_pos.    *)
(***************************************************************************)
\* the satellites of the message, in cell order
FragKeys == <<SatKey("G", 1), SatKey("G", 2)>>

\* a SatelliteState, with the receiver position that brdc2pos (pos_read) and
\* line 383 (azel_read) found; "-" when the read was not made
NewSat(key) == [key |-> key, sat_pos_ecef |-> "None", azel |-> "None",
                pos_read |-> "-", azel_read |-> "-"]

InitFragIdle ==
    /\ frag_pc = "idle"
    /\ frag_i = 0
    /\ frag_sats = <<>>

(***************************************************************************)
(* runge_kutta_4                                BE2pos.py:176-231          *)
(* Times are whole seconds.  current_pos and current_vel are represented   *)
(* by the steps applied to the initial state: no step, the initial state.  *)
(***************************************************************************)
StepSize == 30

Abs(x) == IF x < 0 THEN -x ELSE x

\* step_sign = 1 if (t_target - t) >= 0 else -1
StepSign_Forward(dt) == 1

StepSign(dt) == IF dt >= 0 THEN 1 ELSE -1

\* (h > 0 and time_diff <= h) or (h < 0 and time_diff >= h)
ReachesTarget(step, time_diff) ==
    \/ step > 0 /\ time_diff <= step
    \/ step < 0 /\ time_diff >= step

\* Tb of the modelled ephemeris
Tbs == {900}

InitRkIdle ==
    /\ rk_pc = "idle"
    /\ toe = 0
    /\ t_target = 0
    /\ rk_t = 0
    /\ rk_h = 0
    /\ is_last = FALSE
    /\ rk_steps = <<>>

(***************************************************************************)
(* _solve_least_squares, statistics, and _compute_dop                      *)
(*                                        spp_positioning.py:309-366, 425-482 *)
(* Matrices are represented by their diagonals (x, y, z, clock); standard  *)
(* deviations and DOPs by their squares; the variance of unit weight by    *)
(* its numerator, the sum of the squared residuals.                        *)
(***************************************************************************)
RECURSIVE SumSquares(_)
SumSquares(q) == IF q = <<>> THEN 0 ELSE Head(q) * Head(q) + SumSquares(Tail(q))

Max(a, b) == IF a >= b THEN a ELSE b

\* variance_uow                                 spp_positioning.py:320-325
VarianceUow_NoGuard(residuals) == SumSquares(residuals)

VarianceUow(residuals) ==
    IF Len(residuals) > 4 THEN SumSquares(residuals) ELSE 0

\* np.linalg.inv(AtWA_final): it raises ("raise"), or gives a matrix with
\* positive diagonal
Inverses == {<<>>, <<1, 1, 1, 1>>, <<2, 1, 3, 1>>}

\* cov_matrix = variance_uow * inv; None after an exception
\*                                              spp_positioning.py:327-360
CovMatrix(variance, inv) ==
    IF inv = <<>> THEN <<>> ELSE [i \in 1..4 |-> variance * inv[i]]

\* std_x .. std_clock = sqrt(max(cov[i, i], 0)), 0.0 after an exception
StdDevs(cov) ==
    IF cov = <<>> THEN <<0, 0, 0, 0>> ELSE [i \in 1..4 |-> Max(cov[i], 0)]

\* sqrt(v) if v > 0 else 0.0
DopOf(v) == IF v > 0 THEN v ELSE 0

\* _compute_dop: Q = cov / variance_uow, or cov * 0.0 when variance_uow is
\* not positive                                 spp_positioning.py:425-482
ComputeDop(cov, variance) ==
    IF cov = <<>> THEN <<0, 0, 0, 0, 0>>
    ELSE LET Q == [i \in 1..4 |-> IF variance > 0 THEN cov[i] \div variance
                                  ELSE cov[i] * 0]
         IN  <<DopOf(Q[1] + Q[2] + Q[3] + Q[4]),
               DopOf(Q[1] + Q[2] + Q[3]),
               DopOf(Q[1] + Q[2]),
               DopOf(Q[3]),
               DopOf(Q[4])>>

\* residuals of the modelled solutions
ResidualValues == {-1, 0, 1}

InitStatIdle ==
    /\ stat_done = FALSE
    /\ residuals_final = <<>>
    /\ variance_uow = 0
    /\ cov_matrix = <<>>
    /\ std_devs = <<0, 0, 0, 0>>
    /\ dops = <<0, 0, 0, 0, 0>>

InitPure ==
    InitMsmIdle /\ InitWeightIdle /\ InitFragIdle /\ InitRkIdle /\ InitStatIdle

InitExt == InitSolver /\ InitThreads /\ InitPure

\* RTCMHandler.__init__ and the default configuration
InitHandler ==
    /\ ephemeris_cache = [k \in SatKeys |-> NoEph]
    /\ cacheLock = NoHolder
    /\ dpc = [d \in Decoders |-> "idle"]
    /\ dmsg = [d \in Decoders |-> NoMsg]
    /\ lastOut = NoOut
    /\ ioStatus = FALSE
    /\ lastUC = NoUC
    /\ procLog = [k \in SatKeys |-> <<>>]
    /\ updates = [k \in SatKeys |-> 0]
    /\ nMsgs = 0
    /\ nConnects = 0

NoUtc == -1

\* PositioningThread.__init__                   positioning/workers.py:60-105
InitPositioning ==
    /\ running = TRUE
    /\ ptpc = "loop"
    /\ epoch_obs = None
    /\ current_epoch_utc = NoUtc
    /\ pending_epoch = None
    /\ uipc = "idle"
    /\ recvSinceFlush = <<>>
    /\ solverLog = <<>>

\* the ring buffer as constructed, with no client thread
InitBuffer ==
    /\ buffer = <<>>
    /\ closed = FALSE
    /\ not_empty = <<>>
    /\ not_full = <<>>
    /\ pc = [t \in Threads |-> "idle"]
    /\ arg = [t \in Threads |-> NoArg]
    /\ lastRet = NoRet
    /\ nextItem = 1
    /\ putLog = <<>>
    /\ getLog = <<>>
    /\ nbRun = <<>>
    /\ nbRunOK = TRUE

(***************************************************************************)
(* SpecDec: the two decoder threads take messages in any order and share   *)
(* one RTCMHandler; approx_rec_pos starts unset or configured.             *)
(***************************************************************************)
InitDec ==
    /\ InitHandler
    /\ approx_rec_pos \in {"zero", "nonzero"}
    /\ InitBuffer
    /\ InitPositioning
    /\ InitExt

NextDec ==
    \/ \E d \in Decoders :
          \/ \E msg \in EphMsgs : D_EphIncomplete(d, msg) /\ UNCHANGED <<rbVars, posVars, extVars>>
          \/ \E msg \in EphMsgs : D_UpdateCacheAcquire(d, msg) /\ UNCHANGED <<rbVars, posVars, extVars>>
          \/ D_UpdateCacheCompare(d) /\ UNCHANGED <<rbVars, posVars, extVars>>
          \/ D_UpdateCacheWrite(d) /\ UNCHANGED <<rbVars, posVars, extVars>>
          \/ \E msg \in MsmMsgs : D_Msm(d, msg) /\ UNCHANGED <<rbVars, posVars, extVars>>
          \/ \E msg \in StationMsgs : D_Station(d, msg) /\ UNCHANGED <<rbVars, posVars, extVars>>
          \/ \E msg \in OtherMsgs : D_Other(d, msg) /\ UNCHANGED <<rbVars, posVars, extVars>>
    \/ IO_Connected /\ UNCHANGED <<rbVars, posVars, extVars>>
    \/ IO_Disconnected /\ UNCHANGED <<rbVars, posVars, extVars>>

SpecDec == InitDec /\ [][NextDec]_vars

(***************************************************************************)
(* PositioningThread and its ring buffer.  Time is counted in ticks of     *)
(* half a second; a fragment is an EpochObservation with its utc_datetime  *)
(* (NoUtc when the attribute is missing) and its satellites map, whose     *)
(* values are named after the fragment that carries them.                  *)
(***************************************************************************)
PosThread == 1

UiThread == 2

TicksPerSecond == 2

\* utc_datetime values of the fragments handed to on_observation_epoch
UtcTicks == {0, 1, 2}

PosSatSets == {{"G01"}, {"G01", "R01"}}

Fragment(n, utc, keys) == [id |-> n, utc |-> utc, sats |-> [k \in keys |-> n]]

\* utc_dt.replace(microsecond=0)                 positioning/workers.py:154
Normalize(utc) == utc - (utc % TicksPerSecond)

\* elif utc_normalized == self.current_epoch_utc  positioning/workers.py:162
SameEpoch_Always(a, b) == TRUE

SameEpoch(a, b) == a = b

\* for sat_k, sat_v in epoch_obs.satellites.items():
\*     self.pending_epoch.satellites[sat_k] = sat_v
MergeSatellites_FirstWins(pending, new) ==
    [k \in DOMAIN pending \cup DOMAIN new |->
        IF k \in DOMAIN pending THEN pending[k] ELSE new[k]]

MergeSatellites(pending, new) ==
    [k \in DOMAIN pending \cup DOMAIN new |->
        IF k \in DOMAIN new THEN new[k] ELSE pending[k]]

\* solution = self._process_epoch(epoch): the solver is called with epoch
ProcessEpoch(log, epoch) == Append(log, epoch)

\* where run continues once get has returned or entered its wait
PT_AfterGet ==
    IF pc'[PosThread] = "idle"
    THEN /\ ptpc' = "got"
         /\ epoch_obs' = lastRet'.val
    ELSE /\ ptpc' = "in_get"
         /\ UNCHANGED epoch_obs

\* while self.running:                           positioning/workers.py:121
PT_LoopTest ==
    /\ ptpc = "loop"
    /\ ptpc' = IF running THEN "call_get" ELSE "stopped"
    /\ UNCHANGED <<running, epoch_obs, current_epoch_utc, pending_epoch, uipc,
                   recvSinceFlush, solverLog>>
    /\ UNCHANGED <<rbVars, decVars, extVars>>

\* epoch_obs = self.ring_buffer.get(block=True, timeout=0.1)
PT_Get ==
    /\ ptpc = "call_get"
    /\ GetBlocking(PosThread, TRUE)
    /\ PT_AfterGet
    /\ UNCHANGED <<running, current_epoch_utc, pending_epoch, uipc,
                   recvSinceFlush, solverLog>>
    /\ UNCHANGED <<nextItem, decVars, extVars>>

\* the 100 ms of the get expire
PT_GetTimeout ==
    /\ ptpc = "in_get"
    /\ WaitTimeout(PosThread)
    /\ UNCHANGED <<nextItem, decVars, posVars, extVars>>

\* the get leaves its wait
PT_GetResume ==
    /\ ptpc = "in_get"
    /\ GetResume(PosThread)
    /\ PT_AfterGet
    /\ UNCHANGED <<running, current_epoch_utc, pending_epoch, uipc,
                   recvSinceFlush, solverLog>>
    /\ UNCHANGED <<nextItem, decVars, extVars>>

\* if epoch_obs is None: ...                     positioning/workers.py:131-144
PT_HandleNone ==
    /\ ptpc = "got"
    /\ epoch_obs = None
    /\ IF closed
       THEN /\ solverLog' = IF pending_epoch # None
                            THEN ProcessEpoch(solverLog, pending_epoch)
                            ELSE solverLog
            /\ recvSinceFlush' = IF pending_epoch # None THEN <<>>
                                 ELSE recvSinceFlush
            /\ ptpc' = "stopped"
       ELSE /\ ptpc' = "loop"
            /\ UNCHANGED <<solverLog, recvSinceFlush>>
    /\ UNCHANGED <<running, epoch_obs, current_epoch_utc, pending_epoch, uipc>>
    /\ UNCHANGED <<rbVars, decVars, extVars>>

\* the rest of the loop body for a fragment      positioning/workers.py:147-190
\* (epoch_obs is dead after the iteration and is reset)
PT_HandleFragment ==
    /\ ptpc = "got"
    /\ epoch_obs # None
    /\ IF epoch_obs.utc = NoUtc
       THEN /\ recvSinceFlush' = Append(recvSinceFlush, epoch_obs)
            /\ UNCHANGED <<current_epoch_utc, pending_epoch, solverLog>>
       ELSE IF current_epoch_utc = NoUtc
       THEN /\ current_epoch_utc' = Normalize(epoch_obs.utc)
            /\ pending_epoch' = epoch_obs
            /\ recvSinceFlush' = Append(recvSinceFlush, epoch_obs)
            /\ UNCHANGED solverLog
       ELSE IF SameEpoch(Normalize(epoch_obs.utc), current_epoch_utc)
       THEN /\ pending_epoch' =
                 [pending_epoch EXCEPT
                     !.sats = MergeSatellites(pending_epoch.sats, epoch_obs.sats)]
            /\ recvSinceFlush' = Append(recvSinceFlush, epoch_obs)
            /\ UNCHANGED <<current_epoch_utc, solverLog>>
       ELSE /\ solverLog' = IF pending_epoch # None
                            THEN ProcessEpoch(solverLog, pending_epoch)
                            ELSE solverLog
            /\ current_epoch_utc' = Normalize(epoch_obs.utc)
            /\ pending_epoch' = epoch_obs
            /\ recvSinceFlush' = <<epoch_obs>>
    /\ ptpc' = "loop"
    /\ epoch_obs' = None
    /\ UNCHANGED <<running, uipc>>
    /\ UNCHANGED <<rbVars, decVars, extVars>>

\* PositioningModule.on_observation_epoch        positioning_module.py:430-433
UI_OnObservationEpoch(frag) ==
    /\ uipc # "stopping"
    /\ nextItem <= MaxItems
    /\ PutNonBlocking(UiThread, frag)
    /\ nextItem' = nextItem + 1
    /\ UNCHANGED <<decVars, posVars, extVars>>

\* stop_positioning -> PositioningThread.stop(): self.running = False
UI_StopSetFlag ==
    /\ uipc = "idle"
    /\ running' = FALSE
    /\ uipc' = "stopping"
    /\ UNCHANGED <<ptpc, epoch_obs, current_epoch_utc, pending_epoch,
                   recvSinceFlush, solverLog>>
    /\ UNCHANGED <<rbVars, decVars, extVars>>

\* ... self.ring_buffer.close(); stop_positioning closes the same buffer
\* once more, which changes nothing
UI_StopClose ==
    /\ uipc = "stopping"
    /\ Close(UiThread)
    /\ uipc' = "done"
    /\ UNCHANGED <<running, ptpc, epoch_obs, current_epoch_utc, pending_epoch,
                   recvSinceFlush, solverLog>>
    /\ UNCHANGED <<nextItem, decVars, extVars>>

(***************************************************************************)
(* SpecPos: the UI thread forwards fragments and stops the thread once.    *)
(***************************************************************************)
InitPos ==
    /\ InitBuffer
    /\ InitHandler
    /\ approx_rec_pos = "zero"
    /\ InitPositioning
    /\ InitExt

NextPos ==
    \/ PT_LoopTest
    \/ PT_Get
    \/ PT_GetTimeout
    \/ PT_GetResume
    \/ PT_HandleNone
    \/ PT_HandleFragment
    \/ \E utc \in UtcTicks \cup {NoUtc}, keys \in PosSatSets :
          UI_OnObservationEpoch(Fragment(nextItem, utc, keys))
    \/ UI_StopSetFlag
    \/ UI_StopClose

SpecPos == InitPos /\ [][NextPos]_vars

(***************************************************************************)
(* PositioningThread._process_epoch with SPPPositioner.process_epoch, and  *)
(* the lines of run that follow it.                                        *)
(*                 positioning/workers.py:171-186, 213-249                 *)
(*                 spp_positioning.py:99-131, 215-423                      *)
(***************************************************************************)
StepOutcomes == {"small", "large", "singular", "raise"}

\* the end of _process_epoch and of the iteration of run that called it; a
\* solution object is named by its epoch in the track and on the channel,
\* and the epoch and its observation list are dropped
Finish(epoch, obs, ok, conv, cause) ==
    LET ep == epoch.id
        result == IF ok
                  THEN [position |-> ep, convergence |-> conv,
                        num_satellites |-> Len(obs),
                        solution_status |-> SolutionStatusOf(conv, Len(obs))]
                  ELSE NoResult
        solution == [epoch |-> ep, position |-> ep,
                     status |-> ConvertStatus(conv, Len(obs)),
                     num_satellites |-> Len(obs), convergence |-> conv]
    IN  /\ approx_position' = ApproxAfter(result, approx_position, ep)
        /\ IF ok
           THEN /\ last_position' = solution
                /\ position_track' = Append(position_track, ep)
                /\ emitted' = Append(emitted, ep)
           ELSE UNCHANGED <<last_position, position_track, emitted>>
        /\ lastSolve' = [epoch |-> ep, result |-> IF ok THEN "solution" ELSE "none",
                         cause |-> cause,
                         nSats |-> Len(epoch.satellites),
                         usable |-> Cardinality(UsableSatellites(epoch)),
                         approxBefore |-> approx_position,
                         lastBefore |-> last_position,
                         trackBefore |-> position_track,
                         emittedBefore |-> emitted]
        /\ spc' = "idle"
        /\ sEpoch' = None
        /\ observations' = <<>>

\* run hands an epoch to _process_epoch: _extract_observations and the test
\* on the number of observations
S_ProcessEpoch(d) ==
    /\ spc = "idle"
    /\ nEpochs < MaxEpochs
    /\ nEpochs' = nEpochs + 1
    /\ iteration' = 0
    /\ convergence' = FALSE
    /\ nSteps' = 0
    /\ lastStep' = "none"
    /\ LET epoch == BuildEpoch(nEpochs + 1, d, approx_rec_pos)
           obs == ExtractObservations(epoch)
       IN  IF Insufficient(obs)
           THEN Finish(epoch, obs, FALSE, FALSE, "insufficient")
           ELSE /\ sEpoch' = epoch
                /\ observations' = obs
                /\ spc' = "iterate"
                /\ lastSolve' = NoSolve
                /\ UNCHANGED <<approx_position, last_position, position_track,
                               emitted>>
    /\ UNCHANGED <<rbVars, decVars, posVars, thrVars, pureVars>>

\* one pass of the loop of _solve_least_squares: the normal equations are
\* singular, something raises, or the position moves by less (small) or
\* more (large) than CONVERGENCE_THRESHOLD
S_Iterate(outcome) ==
    /\ spc = "iterate"
    /\ MayIterate(iteration)
    /\ IF outcome \in {"singular", "raise"}
       THEN /\ Finish(sEpoch, observations, FALSE, FALSE, outcome)
            \* the call returns None and its locals die with it
            /\ iteration' = 0
            /\ nSteps' = 0
            /\ lastStep' = "none"
            /\ UNCHANGED convergence
       ELSE /\ nSteps' = nSteps + 1
            /\ lastStep' = outcome
            /\ IF ConvergedBy(outcome)
               THEN /\ convergence' = TRUE
                    /\ UNCHANGED iteration
                    /\ Finish(sEpoch, observations, TRUE, TRUE, "converged")
               ELSE /\ iteration' = iteration + 1
                    /\ UNCHANGED <<convergence, spc, approx_position,
                                   last_position, position_track, emitted,
                                   lastSolve, sEpoch, observations>>
    /\ UNCHANGED nEpochs
    /\ UNCHANGED <<rbVars, decVars, posVars, thrVars, pureVars>>

\* the loop condition fails: the result is built from the last state
S_IterationCap ==
    /\ spc = "iterate"
    /\ ~MayIterate(iteration)
    /\ Finish(sEpoch, observations, TRUE, convergence, "cap")
    /\ UNCHANGED <<iteration, convergence, nSteps, lastStep, nEpochs>>
    /\ UNCHANGED <<rbVars, decVars, posVars, thrVars, pureVars>>

(***************************************************************************)
(* SpecSolve: epochs as the decoder builds them are solved one after the   *)
(* other by the positioning thread.                                        *)
(***************************************************************************)
InitSolve ==
    /\ InitBuffer
    /\ InitHandler
    /\ approx_rec_pos \in {"zero", "nonzero"}
    /\ InitPositioning
    /\ InitExt

NextSolve ==
    \/ \E d \in EpochDescs : S_ProcessEpoch(d)
    \/ \E outcome \in StepOutcomes : S_Iterate(outcome)
    \/ S_IterationCap

SpecSolve == InitSolve /\ [][NextSolve]_vars

\* the thread that entered _solve_least_squares keeps executing it
FairSpecSolve ==
    /\ SpecSolve
    /\ WF_vars(\E outcome \in StepOutcomes : S_Iterate(outcome))
    /\ WF_vars(S_IterationCap)

(***************************************************************************)
(* SpecThreads: the run methods of the three pipeline threads, with every  *)
(* outcome of the calls they make (an input, nothing, an error), and       *)
(* stop_positioning at any moment.                                         *)
(***************************************************************************)
Goto(t, to) == thr_pc' = [thr_pc EXCEPT ![t] = to]

\* an iteration that handled an input
Handled(t) ==
    /\ thr_resumed' = [thr_resumed EXCEPT ![t] = @ \/ thr_erred[t]]
    /\ UNCHANGED thr_erred

\* an iteration whose error was handled by the loop
Erred(t) ==
    /\ thr_erred' = [thr_erred EXCEPT ![t] = TRUE]
    /\ UNCHANGED thr_resumed

ThreadFrame == UNCHANGED <<rbVars, decVars, posVars, solVars, pureVars,
                           thr_running, buf_closed, stop_pc>>

\* while self.running
LoopContinues_Always(flag) == TRUE

LoopContinues(flag) == flag

\* the status the finally clause leaves: status_signal.emit(self.name, False)
\*                                       monitoring/workers.py:200, 276
FinallyStatus_Keeps(status) == status

FinallyStatus(status) == FALSE

\* the I/O thread's steps emit on status_signal and touch nothing else of
\* the decoder side
IoFrame == UNCHANGED <<rbVars, posVars, solVars, pureVars, thr_running, buf_closed,
                       stop_pc, ephemeris_cache, cacheLock, approx_rec_pos,
                       dpc, dmsg, lastOut, lastUC, procLog, updates, nMsgs,
                       nConnects>>

\* _run_ntrip / _run_serial: the client is created before the loop; an
\* exception there is logged and the method returns
\*                                  monitoring/workers.py:119-126, 207-213
IO_CreateClient(ok) ==
    /\ thr_pc[IOThread] = "start"
    /\ Goto(IOThread, IF ok THEN "loop" ELSE "exited")
    /\ IF ok THEN UNCHANGED <<thr_erred, thr_resumed>> ELSE Erred(IOThread)
    /\ UNCHANGED ioStatus
    /\ IoFrame

\* while self.running                         monitoring/workers.py:130, 216
IO_LoopTest ==
    /\ thr_pc[IOThread] = "loop"
    /\ Goto(IOThread, IF LoopContinues(thr_running[IOThread])
                      THEN "connect" ELSE "exited")
    /\ UNCHANGED <<thr_erred, thr_resumed, ioStatus>>
    /\ IoFrame

\* client.connect(): a socket (status True), nothing (status False, then the
\* wait), or an exception (the except clause: status False)
\*                                  monitoring/workers.py:138-151, 190-193
IO_Connect(outcome) ==
    /\ thr_pc[IOThread] = "connect"
    /\ CASE outcome = "ok" ->
                /\ Goto(IOThread, "connected")
                /\ ioStatus' = TRUE
                /\ UNCHANGED <<thr_erred, thr_resumed>>
         [] outcome = "refused" ->
                /\ Goto(IOThread, "retry")
                /\ ioStatus' = FALSE
                /\ Erred(IOThread)
         [] outcome = "raise" ->
                /\ Goto(IOThread, IF AfterError(IOThread) = "loop"
                                  THEN "finally" ELSE AfterError(IOThread))
                /\ ioStatus' = FALSE
                /\ Erred(IOThread)
    /\ IoFrame

\* the wait before the next attempt: return when running is False, else
\* continue; both pass through the finally clause
\*                                            monitoring/workers.py:144-147
IO_RetryWait ==
    /\ thr_pc[IOThread] = "retry"
    /\ Goto(IOThread, IF thr_running[IOThread] THEN "finally"
                      ELSE "finally_return")
    /\ UNCHANGED <<thr_erred, thr_resumed, ioStatus>>
    /\ IoFrame

\* one turn of `for raw, msg in reader`: a message, a malformed one, the end
\* of the stream, or an exception (the except clause: status False)
\*                                            monitoring/workers.py:159-193
IO_Read(outcome) ==
    /\ thr_pc[IOThread] = "connected"
    /\ CASE outcome \in {"msg", "malformed"} /\ ~thr_running[IOThread] ->
                /\ Goto(IOThread, "finally")
                /\ UNCHANGED <<thr_erred, thr_resumed, ioStatus>>
         [] outcome = "msg" /\ thr_running[IOThread] ->
                UNCHANGED <<thr_pc, ioStatus>> /\ Handled(IOThread)
         [] outcome = "malformed" /\ thr_running[IOThread] ->
                UNCHANGED <<thr_pc, thr_erred, thr_resumed, ioStatus>>
         [] outcome = "end" ->
                /\ Goto(IOThread, "finally")
                /\ UNCHANGED <<thr_erred, thr_resumed, ioStatus>>
         [] outcome = "raise" ->
                /\ Goto(IOThread, IF AfterError(IOThread) = "loop"
                                  THEN "finally" ELSE AfterError(IOThread))
                /\ ioStatus' = FALSE
                /\ Erred(IOThread)
    /\ IoFrame

\* finally: client.close(), status False, sleep(2); then the loop test, or
\* the end of the method after the return of the wait
\*                                            monitoring/workers.py:194-202
IO_Finally ==
    /\ thr_pc[IOThread] \in {"finally", "finally_return"}
    /\ ioStatus' = FinallyStatus(ioStatus)
    /\ Goto(IOThread, IF thr_pc[IOThread] = "finally" THEN "loop" ELSE "exited")
    /\ UNCHANGED <<thr_erred, thr_resumed>>
    /\ IoFrame

\* while self.running of DataProcessingThread.run and PositioningThread.run
\*                  monitoring/workers.py:336, positioning/workers.py:121
Consumer_LoopTest(t) ==
    /\ t # IOThread
    /\ thr_pc[t] = "loop"
    /\ Goto(t, IF LoopContinues(thr_running[t]) THEN "get" ELSE "exited")
    /\ UNCHANGED <<thr_erred, thr_resumed>>
    /\ ThreadFrame

\* DataProcessingThread.run, one iteration: get gives nothing (break when the
\* buffer is closed), or a message that process_message handles or raises on
\*                                            monitoring/workers.py:337-405
DP_Iteration(outcome) ==
    /\ thr_pc[DataProcessingThread] = "get"
    /\ CASE outcome = "none" ->
                /\ Goto(DataProcessingThread,
                        IF buf_closed[BufferOf(DataProcessingThread)]
                        THEN "exited" ELSE "loop")
                /\ UNCHANGED <<thr_erred, thr_resumed>>
         [] outcome = "ok" ->
                Goto(DataProcessingThread, "loop") /\ Handled(DataProcessingThread)
         [] outcome = "raise" ->
                /\ Goto(DataProcessingThread, AfterError(DataProcessingThread))
                /\ Erred(DataProcessingThread)
    /\ ThreadFrame

\* PositioningThread.run, one iteration: get gives nothing (flush and break
\* when the buffer is closed), or a fragment that is cached, merged or
\* solved; _process_epoch gives None on a solver error, and the loop's except
\* handles anything else                      positioning/workers.py:122-208
PT_Iteration(outcome) ==
    /\ thr_pc[PositioningThread] = "get"
    /\ CASE outcome = "none" ->
                /\ Goto(PositioningThread,
                        IF buf_closed[BufferOf(PositioningThread)]
                        THEN "exited" ELSE "loop")
                /\ UNCHANGED <<thr_erred, thr_resumed>>
         [] outcome = "ok" ->
                Goto(PositioningThread, "loop") /\ Handled(PositioningThread)
         [] outcome \in {"nosolution", "raise"} ->
                /\ Goto(PositioningThread, AfterError(PositioningThread))
                /\ Erred(PositioningThread)
    /\ ThreadFrame

\* stop_positioning, step by step: PositioningThread.stop() (flag, then
\* close), the stop() of the processing and I/O threads, the close of the
\* stream buffers                             positioning_module.py:380-413
StopSteps == <<"none", "pos_flag", "pos_close", "dp_flag", "io_flag", "buffers">>

StopPositioning(i) ==
    /\ stop_pc = StopSteps[i]
    /\ stop_pc' = StopSteps[i + 1]
    /\ thr_running' =
          CASE i = 1 -> [thr_running EXCEPT ![PositioningThread] = FALSE]
            [] i = 3 -> [thr_running EXCEPT ![DataProcessingThread] = FALSE]
            [] i = 4 -> [thr_running EXCEPT ![IOThread] = FALSE]
            [] OTHER -> thr_running
    /\ buf_closed' =
          CASE i = 2 -> [buf_closed EXCEPT !["positioning"] = TRUE]
            [] i = 5 -> [buf_closed EXCEPT !["OBS"] = TRUE]
            [] OTHER -> buf_closed
    /\ UNCHANGED <<rbVars, decVars, posVars, solVars, pureVars, thr_pc,
                   thr_erred, thr_resumed>>

InitThr ==
    /\ InitBuffer
    /\ InitHandler
    /\ approx_rec_pos = "zero"
    /\ InitPositioning
    /\ InitExt

NextThr ==
    \/ \E ok \in BOOLEAN : IO_CreateClient(ok)
    \/ IO_LoopTest
    \/ \E outcome \in {"ok", "refused", "raise"} : IO_Connect(outcome)
    \/ IO_RetryWait
    \/ \E outcome \in {"msg", "malformed", "end", "raise"} : IO_Read(outcome)
    \/ IO_Finally
    \/ \E t \in PipelineThreads : Consumer_LoopTest(t)
    \/ \E outcome \in {"none", "ok", "raise"} : DP_Iteration(outcome)
    \/ \E outcome \in {"none", "ok", "nosolution", "raise"} : PT_Iteration(outcome)
    \/ \E i \in 1..(Len(StopSteps) - 1) : StopPositioning(i)

SpecThreads == InitThr /\ [][NextThr]_vars

\* every thread that can take a step of its run method takes one: the
\* scheduler is fair and every connect, read and get returns or times out
FairSpecThreads ==
    /\ SpecThreads
    /\ WF_vars(\E ok \in BOOLEAN : IO_CreateClient(ok))
    /\ WF_vars(IO_LoopTest)
    /\ WF_vars(\E outcome \in {"ok", "refused", "raise"} : IO_Connect(outcome))
    /\ WF_vars(IO_RetryWait)
    /\ WF_vars(\E outcome \in {"msg", "malformed", "end", "raise"} : IO_Read(outcome))
    /\ WF_vars(IO_Finally)
    /\ \A t \in PipelineThreads : WF_vars(Consumer_LoopTest(t))
    /\ WF_vars(\E outcome \in {"none", "ok", "raise"} : DP_Iteration(outcome))
    /\ WF_vars(\E outcome \in {"none", "ok", "nosolution", "raise"} : PT_Iteration(outcome))

(***************************************************************************)
(* SpecMsm: the cells of one satellite of an MSM7 message are decoded one  *)
(* after the other, for every combination of the fields.                   *)
(***************************************************************************)
\* the parts of the program that take no step in the computations below
InitRest ==
    /\ InitBuffer
    /\ InitHandler
    /\ approx_rec_pos = "zero"
    /\ InitPositioning
    /\ InitSolver
    /\ InitThreads

RestFrame == UNCHANGED <<rbVars, decVars, posVars, solVars, thrVars>>

\* one iteration of the loop over the cells     rtcm_handler.py:359-462
MSM_Cell(cell) ==
    /\ n_cells < MaxCells
    /\ LET cache == IF sat_data_cache.filled THEN sat_data_cache
                    ELSE [filled |-> TRUE,
                          r |-> RoughRange(msm_sat.DF397, msm_sat.DF398),
                          rr |-> RoughRate(msm_sat.DF399)]
           obs == SignalOf(cache, cell)
       IN  /\ sat_data_cache' = cache
           /\ msm_cell' = cell
           /\ msm_signal' = obs
           /\ sat_signals' = IF obs.stored
                             THEN Append(sat_signals, obs.pseudorange)
                             ELSE sat_signals
    /\ n_cells' = n_cells + 1
    /\ UNCHANGED <<msm_sat, weightVars, fragVars, rkVars, statVars>>
    /\ RestFrame

InitMsm ==
    /\ InitRest
    /\ msm_sat \in SatFields
    /\ sat_data_cache = NoCache
    /\ msm_cell = NoCell
    /\ msm_signal = NoSignal
    /\ sat_signals = <<>>
    /\ n_cells = 0
    /\ InitWeightIdle
    /\ InitFragIdle
    /\ InitRkIdle
    /\ InitStatIdle

NextMsm == \E cell \in CellFields : MSM_Cell(cell)

SpecMsm == InitMsm /\ [][NextMsm]_vars

(***************************************************************************)
(* SpecWeight: the settings dialog changes the weight mode and the solver  *)
(* builds the weight matrix for two observations.                          *)
(***************************************************************************)
\* open_positioning_settings_dialog: `if weight and hasattr(...)`
\*                                              positioning_module.py:297-300
W_SetMode(weight) ==
    /\ WEIGHT_MODE' = IF weight # "" THEN weight ELSE WEIGHT_MODE
    /\ UNCHANGED <<w_mode, w_obs, W, msmVars, fragVars, rkVars, statVars>>
    /\ RestFrame

\* the loop that fills W                        spp_positioning.py:243-277
W_Build(observations_) ==
    /\ w_mode' = WEIGHT_MODE
    /\ w_obs' = observations_
    /\ W' = [i \in 1..Len(observations_) |-> WeightOf(WEIGHT_MODE, observations_[i])]
    /\ UNCHANGED <<WEIGHT_MODE, msmVars, fragVars, rkVars, statVars>>
    /\ RestFrame

InitWeight ==
    /\ InitRest
    /\ InitMsmIdle
    /\ InitWeightIdle
    /\ InitFragIdle
    /\ InitRkIdle
    /\ InitStatIdle

NextWeight ==
    \/ \E weight \in WeightModes \cup {""} : W_SetMode(weight)
    \/ \E o1, o2 \in WeightObs : W_Build(<<o1, o2>>)

SpecWeight == InitWeight /\ [][NextWeight]_vars

(***************************************************************************)
(* SpecFrag: the decoder thread of the observation stream creates the      *)
(* satellites of one message while the decoder thread of the other stream  *)
(* processes 1005/1006 messages; both use the one GlobalConfig.            *)
(***************************************************************************)
FragFrame == UNCHANGED <<rbVars, decVars, posVars, solVars, thrVars, msmVars,
                         weightVars, rkVars, statVars>>

\* sat_state = SatelliteState(sys_id, prn); without an ephemeris the
\* satellite is complete                        rtcm_handler.py:368-375
Frag_Create ==
    /\ frag_pc = "create"
    /\ frag_sats' = Append(frag_sats, NewSat(FragKeys[frag_i]))
    /\ IF CacheGet(ephemeris_cache, FragKeys[frag_i]) # NoEph
       THEN /\ frag_pc' = "brdc2pos"
            /\ UNCHANGED frag_i
       ELSE IF frag_i < Len(FragKeys)
       THEN /\ frag_i' = frag_i + 1
            /\ UNCHANGED frag_pc
       ELSE /\ frag_pc' = "done"
            /\ UNCHANGED frag_i
    /\ FragFrame

\* sat_pos = BE2pos.brdc2pos(...), which reads config.approx_rec_pos
\*                                   rtcm_handler.py:379-381, BE2pos.py:18-29
Frag_Brdc2pos ==
    /\ frag_pc = "brdc2pos"
    /\ LET sat_pos == brdc2pos(CacheGet(ephemeris_cache, FragKeys[frag_i]),
                               approx_rec_pos)
       IN  /\ frag_sats' = [frag_sats EXCEPT
                               ![frag_i].sat_pos_ecef = sat_pos,
                               ![frag_i].pos_read = approx_rec_pos]
           /\ IF sat_pos # "None"
              THEN /\ frag_pc' = "azel"
                   /\ UNCHANGED frag_i
              ELSE IF frag_i < Len(FragKeys)
              THEN /\ frag_pc' = "create"
                   /\ frag_i' = frag_i + 1
              ELSE /\ frag_pc' = "done"
                   /\ UNCHANGED frag_i
    /\ FragFrame

\* rec_pos = config.approx_rec_pos and the azimuth/elevation
\*                                              rtcm_handler.py:383-387
Frag_AzEl ==
    /\ frag_pc = "azel"
    /\ frag_sats' = [frag_sats EXCEPT
                        ![frag_i].azel =
                            IF approx_rec_pos # "zero" THEN "set" ELSE "None",
                        ![frag_i].azel_read = approx_rec_pos]
    /\ IF frag_i < Len(FragKeys)
       THEN /\ frag_pc' = "create"
            /\ frag_i' = frag_i + 1
       ELSE /\ frag_pc' = "done"
            /\ UNCHANGED frag_i
    /\ FragFrame

\* ephemerides of some of the satellites were cached before the message
InitFrag ==
    /\ InitBuffer
    /\ \E cached \in SUBSET {FragKeys[i] : i \in 1..Len(FragKeys)} :
          ephemeris_cache = [k \in SatKeys |->
                                IF k \in cached THEN Eph("Toe", 100, 1)
                                ELSE NoEph]
    /\ cacheLock = NoHolder
    /\ dpc = [d \in Decoders |-> "idle"]
    /\ dmsg = [d \in Decoders |-> NoMsg]
    /\ lastOut = NoOut
    /\ ioStatus = FALSE
    /\ lastUC = NoUC
    /\ procLog = [k \in SatKeys |-> <<>>]
    /\ updates = [k \in SatKeys |-> 0]
    /\ nMsgs = 0
    /\ nConnects = 0
    /\ approx_rec_pos \in {"zero", "nonzero"}
    /\ InitPositioning
    /\ InitSolver
    /\ InitThreads
    /\ InitMsmIdle
    /\ InitWeightIdle
    /\ InitRkIdle
    /\ InitStatIdle
    /\ frag_pc = "create"
    /\ frag_i = 1
    /\ frag_sats = <<>>

NextFrag ==
    \/ Frag_Create
    \/ Frag_Brdc2pos
    \/ Frag_AzEl
    \/ \E msg \in StationMsgs :
          D_Station("EPH", msg)
              /\ UNCHANGED <<rbVars, posVars, solVars, thrVars, pureVars>>

SpecFrag == InitFrag /\ [][NextFrag]_vars

(***************************************************************************)
(* SpecRK: runge_kutta_4 is called for a target time within MaxDt seconds  *)
(* of the reference time, before or after it.                              *)
(***************************************************************************)
RkFrame == /\ UNCHANGED <<msmVars, weightVars, fragVars, statVars, toe,
                          t_target>>
           /\ RestFrame

\* the top of `while True`: the last step is shrunk to what remains, and a
\* remainder below 1e-9 ends the loop           BE2pos.py:190-199
RK_Test ==
    /\ rk_pc = "test"
    /\ LET time_diff == t_target - rk_t
       IN  IF ReachesTarget(rk_h, time_diff)
           THEN /\ rk_h' = time_diff
                \* abs(h) < 1e-9: in whole seconds, h = 0
                /\ IF Abs(time_diff) = 0
                   THEN rk_pc' = "returned" /\ UNCHANGED is_last
                   ELSE rk_pc' = "step" /\ is_last' = TRUE
           ELSE /\ is_last' = FALSE
                /\ rk_pc' = "step"
                /\ UNCHANGED rk_h
    /\ UNCHANGED <<rk_t, rk_steps>>
    /\ RkFrame

\* the RK4 update, t += h, `if is_last: break`  BE2pos.py:201-229
RK_Step ==
    /\ rk_pc = "step"
    /\ rk_steps' = Append(rk_steps, rk_h)
    /\ rk_t' = rk_t + rk_h
    /\ rk_pc' = IF is_last THEN "returned" ELSE "test"
    /\ UNCHANGED <<rk_h, is_last>>
    /\ RkFrame

\* t = toe; h = 30.0 * step_sign; the copies    BE2pos.py:180-187
InitRK ==
    /\ InitRest
    /\ InitMsmIdle
    /\ InitWeightIdle
    /\ InitFragIdle
    /\ InitStatIdle
    /\ toe \in Tbs
    /\ t_target \in (toe - MaxDt)..(toe + MaxDt)
    /\ rk_t = toe
    /\ rk_h = StepSize * StepSign(t_target - toe)
    /\ is_last = FALSE
    /\ rk_steps = <<>>
    /\ rk_pc = "test"

NextRK == RK_Test \/ RK_Step

SpecRK == InitRK /\ [][NextRK]_vars

\* the function runs on: every step of it is eventually taken
FairSpecRK == SpecRK /\ WF_vars(RK_Test) /\ WF_vars(RK_Step)

(***************************************************************************)
(* SpecStat: the statistics of solutions from MIN_SATELLITES to MaxSats    *)
(* observations, for every combination of residuals and every outcome of   *)
(* the matrix inversion.                                                   *)
(***************************************************************************)
\* the sequences of n values from S
RECURSIVE Tuples(_, _)
Tuples(n, S) ==
    IF n = 0 THEN {<<>>}
    ELSE {Append(q, v) : q \in Tuples(n - 1, S), v \in S}

\* variance, covariance, standard deviations and DOPs of the residuals
\*                                              spp_positioning.py:320-366
Stat_Compute(inv) ==
    LET variance == VarianceUow(residuals_final)
        cov == CovMatrix(variance, inv)
    IN  /\ ~stat_done
        /\ stat_done' = TRUE
        /\ variance_uow' = variance
        /\ cov_matrix' = cov
        /\ std_devs' = StdDevs(cov)
        /\ dops' = ComputeDop(cov, variance)
        /\ UNCHANGED <<residuals_final, msmVars, weightVars, fragVars, rkVars>>
        /\ RestFrame

\* residuals_final of a solve over n observations  spp_positioning.py:309-318
InitStat ==
    /\ InitRest
    /\ InitMsmIdle
    /\ InitWeightIdle
    /\ InitFragIdle
    /\ InitRkIdle
    /\ stat_done = FALSE
    /\ \E n \in MIN_SATELLITES..MaxSats :
          residuals_final \in Tuples(n, ResidualValues)
    /\ variance_uow = 0
    /\ cov_matrix = <<>>
    /\ std_devs = <<0, 0, 0, 0>>
    /\ dops = <<0, 0, 0, 0, 0>>

NextStat == \E inv \in Inverses : Stat_Compute(inv)

SpecStat == InitStat /\ [][NextStat]_vars

(***************************************************************************)
(* SpecRB: NThreads client threads call one RingBuffer in any order; the   *)
(* items put are numbered in call order.                                   *)
(***************************************************************************)
InitRB ==
    /\ InitBuffer
    /\ InitHandler
    /\ approx_rec_pos = "zero"
    /\ InitPositioning
    /\ InitExt

CallPutNonBlocking(t) ==
    /\ nextItem <= MaxItems
    /\ PutNonBlocking(t, Item(nextItem))
    /\ nextItem' = nextItem + 1
    /\ UNCHANGED nonRbVars

CallPutBlocking(t) ==
    /\ nextItem <= MaxItems
    /\ \E tmo \in BOOLEAN : PutBlocking(t, Item(nextItem), tmo)
    /\ nextItem' = nextItem + 1
    /\ UNCHANGED nonRbVars

CallGetNonBlocking(t) ==
    GetNonBlocking(t) /\ UNCHANGED <<nextItem, nonRbVars>>

CallGetBlocking(t) ==
    /\ \E tmo \in BOOLEAN : GetBlocking(t, tmo)
    /\ UNCHANGED <<nextItem, nonRbVars>>

CallClose(t) == ~closed /\ Close(t) /\ UNCHANGED <<nextItem, nonRbVars>>

CallClear(t) ==
    buffer # <<>> /\ Clear(t) /\ UNCHANGED <<nextItem, nonRbVars>>

StepWaitTimeout(t) == WaitTimeout(t) /\ UNCHANGED <<nextItem, nonRbVars>>

StepPutResume(t) == PutResume(t) /\ UNCHANGED <<nextItem, nonRbVars>>

StepGetResume(t) == GetResume(t) /\ UNCHANGED <<nextItem, nonRbVars>>

NextRB ==
    \E t \in Threads :
        \/ CallPutNonBlocking(t)
        \/ CallPutBlocking(t)
        \/ CallGetNonBlocking(t)
        \/ CallGetBlocking(t)
        \/ CallClose(t)
        \/ CallClear(t)
        \/ StepWaitTimeout(t)
        \/ StepPutResume(t)
        \/ StepGetResume(t)

SpecRB == InitRB /\ [][NextRB]_vars

\* a thread that is runnable again eventually gets the mutex back and returns
FairSpecRB ==
    /\ SpecRB
    /\ \A t \in Threads : WF_vars(StepPutResume(t)) /\ WF_vars(StepGetResume(t))

(***************************************************************************)
(* Claims about the ring buffer.                                           *)
(***************************************************************************)

\* C1: on an open buffer a non-blocking put returns True, and a run of k
\* non-blocking puts that starts on the empty buffer, with no other call in
\* between, leaves exactly the last min(k, maxsize) items in put order.
C1_NonBlockingPutKeepsLastN ==
    /\ nbRunOK => buffer = LastN(nbRun, Min(Len(nbRun), maxsize))
    /\ (lastRet.op = "put" /\ ~lastRet.block /\ ~lastRet.calledClosed)
           => lastRet.val = TRUE

\* maxsize+1 non-blocking puts in a row: the first item is gone
C1_Witness ==
    /\ nbRunOK
    /\ Len(nbRun) = maxsize + 1
    /\ Len(buffer) = maxsize
    /\ lastRet.op = "put" /\ ~lastRet.block /\ lastRet.val = TRUE

C2_Safe ==
    /\ (lastRet.op = "put" /\ lastRet.calledClosed)
           => (lastRet.val = FALSE /\ lastRet.sameBuf)
    /\ (lastRet.op = "get" /\ lastRet.calledClosed)
           => lastRet.val = lastRet.headAt
    /\ closed => /\ not_empty = <<>>
                 /\ not_full = <<>>
                 /\ \A t \in Threads : pc[t] \notin {"put_wait", "get_wait"}

\* C2: a put called on a closed buffer returns False and leaves the contents
\* alone; a get called on a closed buffer returns the oldest buffered item,
\* None once it is drained; close() leaves no thread waiting, and every
\* thread that was inside put or get when the buffer was closed returns.
C2_CloseSemantics ==
    /\ []C2_Safe
    /\ \A t \in Threads : (closed /\ pc[t] # "idle") ~> (pc[t] = "idle")

\* a get that was blocked on the empty buffer returns None because of close()
C2_Witness ==
    /\ closed
    /\ lastRet.op = "get" /\ lastRet.block
    /\ ~lastRet.calledClosed /\ ~lastRet.timedOut
    /\ lastRet.val = None

\* C3 as stated: a blocking get returns the oldest item whenever the buffer
\* is non-empty, and None only with the buffer empty (after a timeout or on
\* a closed buffer); a non-blocking get returns None exactly when empty.
C3_NoneOnlyWhenEmpty ==
    lastRet.op = "get" =>
        /\ ~lastRet.emptyAt => lastRet.val = lastRet.headAt
        /\ lastRet.val = None => lastRet.emptyAt
        /\ (lastRet.block /\ lastRet.val = None)
               => (lastRet.timedOut \/ lastRet.closedAt)

\* C3 (amended): a get that returns an item returns the oldest one; a
\* blocking get returns None only when its wait timed out (an item may have
\* arrived between the expiry and the return) or when the buffer is closed
\* and empty, and without a timeout it returns the oldest item whenever the
\* buffer is non-empty; a non-blocking get returns None exactly when empty.
C3_NoneOnTimeoutOrClosedEmpty ==
    lastRet.op = "get" =>
        /\ lastRet.val # None => lastRet.val = lastRet.headAt
        /\ (lastRet.block /\ lastRet.val = None)
               => (lastRet.timedOut \/ (lastRet.closedAt /\ lastRet.emptyAt))
        /\ (lastRet.block /\ ~lastRet.timedOut /\ ~lastRet.emptyAt)
               => lastRet.val = lastRet.headAt
        /\ ~lastRet.block => (lastRet.val = None <=> lastRet.emptyAt)

\* a blocking get whose timeout expired returns None past a buffered item
C3_Witness ==
    /\ lastRet.op = "get" /\ lastRet.block
    /\ lastRet.timedOut /\ lastRet.val = None
    /\ ~lastRet.emptyAt

\* C4: every item is returned by at most one get, and the items come out
\* in the order they went in (a subsequence of the put order).
C4_FifoSubsequence ==
    /\ NoDuplicates(getLog)
    /\ IsSubseq(getLog, putLog)

\* two items were returned and at least one other item was lost
C4_Witness ==
    /\ Len(getLog) >= 2
    /\ Len(putLog) > Len(getLog) + Len(buffer)

\* C5 as stated: a blocking put on a full buffer returns False when the
\* buffer is closed while it waits, and whenever the buffer is closed or the
\* put returns False the item is not added.
C5_BlockingPutFailsOnClose ==
    (lastRet.op = "put" /\ lastRet.block) =>
        /\ lastRet.closedAt => (lastRet.val = FALSE /\ lastRet.sameBuf)
        /\ lastRet.val = FALSE => lastRet.sameBuf


(***************************************************************************)
(* Claims about the ephemeris cache and the decoder (SpecDec).             *)
(***************************************************************************)
\* indices of log at which a record's reference time differs from the one before
ChangePoints(log) ==
    {i \in 1..Len(log) : i = 1 \/ log[i].ref # log[i - 1].ref}

\* the record a one-at-a-time compare-and-replace leaves after log
SequentialCache(log) ==
    IF log = <<>> THEN NoEph
    ELSE log[CHOOSE i \in ChangePoints(log) : \A j \in ChangePoints(log) : j <= i]

RefsOf(log) == [i \in 1..Len(log) |-> log[i].ref]

DecodersIdle == \A d \in Decoders : dpc[d] = "idle"

\* C6: one record per key; a record is written iff the key is absent or its
\* reference time (Toe, Tb for GLONASS) differs from the stored one; the
\* compare-and-replace is atomic, so the cache and the number of writes are
\* those of the records handled one at a time (100, 100, 200 -> 2 writes,
\* the second record changes nothing).
C6_CompareAndReplace ==
    /\ Cardinality({d \in Decoders : dpc[d] # "idle"}) <= 1
    /\ lastUC.written <=>
          (lastUC # NoUC /\
             (lastUC.old = NoEph \/ lastUC.new.ref # lastUC.old.ref
                                 \/ lastUC.new.tag # lastUC.old.tag))
    /\ DecodersIdle =>
          \A k \in SatKeys :
             /\ updates[k] = Cardinality(ChangePoints(procLog[k]))
             /\ ephemeris_cache[k] = SequentialCache(procLog[k])
    /\ \A k \in SatKeys :
          (DecodersIdle /\ RefsOf(procLog[k]) = <<100, 100, 200>>) =>
              updates[k] = 2 /\ ephemeris_cache[k] = procLog[k][3]
    /\ \A k \in SatKeys :
          (DecodersIdle /\ RefsOf(procLog[k]) = <<100, 100>>) =>
              updates[k] = 1 /\ ephemeris_cache[k] = procLog[k][1]

C6_Witness ==
    /\ DecodersIdle
    /\ RefsOf(procLog[SatKey("G", 1)]) = <<100, 100, 200>>
    /\ updates[SatKey("G", 1)] = 2
    /\ lastUC.written
    /\ lastUC.old.ref = 100

\* C7 as stated: a cached ephemeris is never removed, and the reference time
\* stored for a key never goes backwards (it is replaced only by a newer one).
C7_ReferenceTimeNeverGoesBack ==
    [][\A k \in SatKeys :
          ephemeris_cache[k] # NoEph =>
             /\ ephemeris_cache'[k] # NoEph
             /\ ephemeris_cache'[k].ref >= ephemeris_cache[k].ref]_vars

\* C7 amended: a cached ephemeris is never removed, also across reconnects of
\* the I/O thread, and it is replaced only by a record whose reference time
\* differs from the stored one, older or newer.
C7_NeverRemovedReplacedOnChange ==
    [][\A k \in SatKeys :
          ephemeris_cache[k] # NoEph =>
             /\ ephemeris_cache'[k] # NoEph
             /\ ephemeris_cache'[k] # ephemeris_cache[k] =>
                   ephemeris_cache'[k].ref # ephemeris_cache[k].ref]_vars

C7_Witness ==
    /\ lastUC.written
    /\ lastUC.old.ref = 200
    /\ lastUC.new.ref = 100
    /\ ephemeris_cache[lastUC.key] = lastUC.new
    /\ nConnects = 2

C18_UncachedSatelliteIncludedUnset ==
    (lastOut.handler = "msm" /\ lastOut.decodable) =>
        \A k \in lastOut.msgKeys \ lastOut.cached :
            /\ lastOut.kind = "epoch"
            /\ k \in DOMAIN lastOut.sats
            /\ lastOut.sats[k].sat_pos_ecef = "None"
            /\ lastOut.sats[k].azel = "None"

\* C20: process_message returns a fragment for every observation message of a
\* target system that carries its epoch time and at least one cell.
C20_DecodableMsmReturnsFragment ==
    (lastOut.handler = "msm" /\ lastOut.decodable) => lastOut.kind = "epoch"


\* the message types the decoder is required to handle
MandatoryTypes == {"1005", "1006", "1019", "1020", "1042", "1045", "1046",
                   "1077", "1087", "1097", "1117", "1127"}

\* C21: a message of any other type is ignored: process_message returns no
\* fragment and changes neither the ephemeris cache nor the approximate
\* receiver position.
C21_OtherTypesIgnored ==
    (lastOut.dec # "none" /\ lastOut.id \notin MandatoryTypes) =>
        /\ lastOut.kind # "epoch"
        /\ ~lastOut.changed


(***************************************************************************)
(* Claims about the positioning thread (SpecPos).                          *)
(***************************************************************************)
\* the whole UTC second of a time in ticks
FloorSecond(utc) == utc \div TicksPerSecond

\* the fragments of s that carry a time within the second sec
OfSecond(s, sec) ==
    SelectSeq(s, LAMBDA f : f.utc # NoUtc /\ FloorSecond(f.utc) = sec)

\* key-wise union of the satellite maps of s, the last fragment that has a
\* key supplying its value
LastWriterUnion(s) ==
    LET has(k) == {i \in 1..Len(s) : k \in DOMAIN s[i].sats}
        keys == UNION {DOMAIN s[i].sats : i \in 1..Len(s)}
    IN  [k \in keys |->
            s[CHOOSE i \in has(k) : \A j \in has(k) : j <= i].sats[k]]

\* the fragment that was put with number n
FragmentById(n) == putLog[CHOOSE i \in 1..Len(putLog) : putLog[i].id = n]

\* C9: while the positioning thread runs, the pending epoch's satellite map
\* is the last-writer-wins union of exactly the fragments received since the
\* last flush whose UTC second is the pending one, and holds no satellite of
\* a fragment of another UTC second.
C9_PendingIsMergeOfSameSecond ==
    (ptpc # "stopped" /\ pending_epoch # None) =>
        /\ pending_epoch.sats =
              LastWriterUnion(OfSecond(recvSinceFlush,
                                       FloorSecond(pending_epoch.utc)))
        /\ \A k \in DOMAIN pending_epoch.sats :
              FloorSecond(FragmentById(pending_epoch.sats[k]).utc)
                  = FloorSecond(pending_epoch.utc)
        /\ \A i \in 1..Len(recvSinceFlush) :
              recvSinceFlush[i].utc # NoUtc =>
                  FloorSecond(recvSinceFlush[i].utc)
                      = FloorSecond(pending_epoch.utc)

C9_Witness ==
    /\ ptpc # "stopped"
    /\ pending_epoch # None
    /\ Len(solverLog) >= 1
    /\ Len(recvSinceFlush) = 2
    /\ recvSinceFlush[1].utc # recvSinceFlush[2].utc
    /\ DOMAIN recvSinceFlush[1].sats = {"G01", "R01"}
    /\ DOMAIN recvSinceFlush[2].sats = {"G01"}
    /\ pending_epoch.sats["G01"] = recvSinceFlush[2].id
    /\ pending_epoch.sats["R01"] = recvSinceFlush[1].id

\* C10: the UTC second of every epoch passed to the solver is strictly
\* greater than that of the epoch passed before it.
C10_SolverKeysStrictlyIncrease ==
    \A i \in 2..Len(solverLog) :
        FloorSecond(solverLog[i].utc) > FloorSecond(solverLog[i - 1].utc)


\* the UTC seconds of the fragments the positioning thread took from its buffer
SecondsReceived ==
    {FloorSecond(getLog[i].utc) :
        i \in {j \in 1..Len(getLog) : getLog[j].utc # NoUtc}}

\* C11: once the thread has shut down, one epoch has been passed to the solver
\* (one solution, every epoch taken as solvable) per distinct UTC second of
\* the fragments the thread received; fragments at ticks 0 and 1 of one
\* second and a third in the next second give exactly two.
C11_OneSolutionPerSecond ==
    ptpc = "stopped" => Len(solverLog) = Cardinality(SecondsReceived)

\* C12: when the thread has terminated after stop() and a pending epoch
\* existed, that pending epoch was the last one passed to the solver.
C12_PendingFlushedOnShutdown ==
    (ptpc = "stopped" /\ pending_epoch # None) =>
        /\ solverLog # <<>>
        /\ solverLog[Len(solverLog)] = pending_epoch


C15_Safe ==
    /\ iteration <= MAX_ITERATIONS
    /\ nSteps <= MAX_ITERATIONS
    /\ convergence => lastStep = "small"
    /\ (spc = "idle" /\ lastSolve.result = "solution") =>
          /\ last_position.convergence <=> (lastStep = "small")
          /\ last_position.status = "FIXED" => lastStep = "small"
          /\ lastSolve.cause = "cap" =>
                /\ nSteps = MAX_ITERATIONS
                /\ lastStep = "large"
                /\ last_position.status = "UNCERTAIN"

\* C15: the above always, and a solve that was entered always ends.
C15_IterationTerminates ==
    /\ []C15_Safe
    /\ (spc = "iterate") ~> (spc = "idle")

C15_Witness ==
    /\ spc = "idle"
    /\ lastSolve.cause = "cap"
    /\ nSteps = MAX_ITERATIONS
    /\ last_position.status = "UNCERTAIN"
    /\ last_position.epoch = nEpochs

\* C16: a solver call without a solution (too few usable observations,
\* singular normal equations, an exception) emits nothing and leaves the
\* approximate position, the last solution and the track as they were, and
\* the thread is ready for the next epoch.
C16_NoSolutionChangesNothing ==
    /\ (lastSolve.epoch > 0) =>
          ((lastSolve.result = "none")
              <=> (lastSolve.cause \in {"insufficient", "singular", "raise"}))
    /\ (spc = "idle" /\ lastSolve.epoch > 0 /\ lastSolve.result = "none") =>
          /\ emitted = lastSolve.emittedBefore
          /\ approx_position = lastSolve.approxBefore
          /\ last_position = lastSolve.lastBefore
          /\ position_track = lastSolve.trackBefore
    /\ (spc = "idle" /\ lastSolve.result = "solution") =>
          /\ approx_position = lastSolve.epoch
          /\ emitted = Append(lastSolve.emittedBefore, lastSolve.epoch)

C16_Witness ==
    /\ spc = "idle"
    /\ nEpochs = 2
    /\ lastSolve.epoch = 2
    /\ lastSolve.cause = "singular"
    /\ emitted = <<1>>
    /\ approx_position = 1
    /\ last_position.epoch = 1

\* C19: with approx_rec_pos all zeros (no station message processed) no
\* solution is produced, whatever ephemerides are cached and whatever the
\* observations are: the solve is not even entered.
C19_NoSolutionWithoutReceiverPosition ==
    approx_rec_pos = "zero" =>
        /\ emitted = <<>>
        /\ last_position = NoResult
        /\ position_track = <<>>
        /\ spc = "idle"
        /\ lastSolve.result = "none"

C19_Witness ==
    /\ approx_rec_pos = "zero"
    /\ nEpochs = MaxEpochs
    /\ lastSolve.epoch = MaxEpochs
    /\ lastSolve.nSats = MaxSats
    /\ lastSolve.cause = "insufficient"
    /\ emitted = <<>>


(***************************************************************************)
(* Claims about the threads' life (SpecThreads).                           *)
(***************************************************************************)
\* the thread leaves its run method in this step
Exits(t) == thr_pc[t] # "exited" /\ thr_pc'[t] = "exited"

StopCalledOrClosed(t) == ~thr_running[t] \/ buf_closed[BufferOf(t)]

\* C17 as stated: a thread has left its loop only after stop() was called on
\* it or its ring buffer was closed.
C17_OnlyStopOrCloseEndsThread ==
    \A t \in PipelineThreads : thr_pc[t] = "exited" => StopCalledOrClosed(t)

\* C17, first part of the amended statement: a thread is outside its run
\* method only after stop() or close, or, for the I/O thread, after the
\* failure to create its client.
C17_ExitedOnlyByStopCloseOrConfig ==
    \A t \in PipelineThreads :
        thr_pc[t] = "exited" =>
            \/ StopCalledOrClosed(t)
            \/ t = IOThread /\ thr_erred[t] /\ ~thr_resumed[t]

\* C17 (amended): a thread leaves run only in a step taken with running
\* False or the buffer closed, or in the I/O thread's failure to create its
\* client before the loop; no other error ends a thread.
C17_ErrorsDoNotEndThreads ==
    /\ []C17_ExitedOnlyByStopCloseOrConfig
    /\ [][\A t \in PipelineThreads :
            Exits(t) => \/ StopCalledOrClosed(t)
                        \/ t = IOThread /\ thr_pc[t] = "start"]_vars

C17_Witness ==
    /\ \A t \in PipelineThreads : thr_erred[t] /\ thr_resumed[t] /\ thr_pc[t] # "exited"
    /\ stop_pc = "none"


\* C22 (safety part): the status is true only between a successful connect
\* and the cleanup of that connection, and no connection attempt is under
\* way or about to start while the status is still true.
C22_StatusSafe ==
    /\ ioStatus => thr_pc[IOThread] \in {"connected", "finally"}
    /\ thr_pc[IOThread] \in {"loop", "connect", "retry"} => ~ioStatus

\* the connection has failed or ended and its cleanup or retry wait is pending
ConnectionOver == thr_pc[IOThread] \in {"retry", "finally"}

\* C22: the above always; status(name, true) is emitted only by a successful
\* connect; and every failed or ended connection is followed by
\* status(name, false) and, unless the thread was stopped, by a new attempt.
C22_StatusFollowsConnection ==
    /\ []C22_StatusSafe
    /\ [][(~ioStatus /\ ioStatus') =>
             (thr_pc[IOThread] = "connect" /\ thr_pc'[IOThread] = "connected")]_vars
    /\ ConnectionOver ~>
          (~ioStatus /\ (thr_pc[IOThread] = "connect" \/ ~thr_running[IOThread]))

C22_Witness ==
    /\ thr_pc[IOThread] = "connect"
    /\ thr_running[IOThread]
    /\ thr_erred[IOThread]
    /\ thr_resumed[IOThread]
    /\ ~ioStatus

\* stop() was called on the thread and, for the decoder and positioning
\* threads, its ring buffer was closed
Stopped(t) ==
    /\ ~thr_running[t]
    /\ t # IOThread => buf_closed[BufferOf(t)]

\* C23: a stopped thread eventually terminates; once running is False the
\* I/O thread starts no further connection attempt and leaves the retry wait
\* by returning.
C23_StoppedThreadTerminates ==
    /\ \A t \in PipelineThreads : Stopped(t) ~> (thr_pc[t] = "exited")
    /\ [][~thr_running[IOThread] =>
             /\ ~(thr_pc[IOThread] = "loop" /\ thr_pc'[IOThread] = "connect")
             /\ (thr_pc[IOThread] = "retry" /\ thr_pc'[IOThread] # "retry")
                   => thr_pc'[IOThread] = "finally_return"]_vars

C23_Witness ==
    /\ \A t \in PipelineThreads :
          thr_pc[t] = "exited" /\ Stopped(t) /\ thr_resumed[t]
    /\ stop_pc = "buffers"


(***************************************************************************)
(* Claims about the observation fields (SpecMsm).                          *)
(***************************************************************************)
\* C24: when the satellite's rough range rate DF399 is the sentinel -8192, or
\* the cell's fine rate DF404 is -16384, the Doppler stored for the signal
\* is 0.
C24_DopplerAbsentOnSentinel ==
    (msm_signal.stored /\ (msm_sat.DF399 = Field(-8192)
                            \/ msm_cell.DF404 = Field(-16384)))
        => msm_signal.doppler = 0

\* the satellite as the solver sees it when its position and an elevation
\* above the cutoff are known
SolverView(signals) ==
    [sat_pos_ecef |-> "ecef", hasElevation |-> TRUE, elevation |-> 45,
     signals |-> signals]

\* C25: when the satellite's rough range DF397 is the sentinel 255 or is
\* missing, every signal stored for the satellite has pseudorange 0 and
\* phase 0, and the solver does not accept the satellite.
C25_NoRangeWithoutRoughRange ==
    (~msm_sat.DF397.present \/ msm_sat.DF397.v = 255) =>
        /\ \A i \in 1..Len(sat_signals) : sat_signals[i] = 0
        /\ msm_signal.pseudorange = 0 /\ msm_signal.phase = 0
        /\ ~Accepted(SolverView(sat_signals))

C25_Witness ==
    /\ msm_sat.DF397 = Field(255)
    /\ n_cells = MaxCells
    /\ Len(sat_signals) = MaxCells
    /\ msm_cell.DF405 = Field(2)
    /\ msm_cell.DF406 = Field(3)
    /\ msm_cell.freq > 0


(***************************************************************************)
(* Claims about the weights (SpecWeight).                                  *)
(***************************************************************************)
\* C26: a weight matrix built in mode 'equal' has weight 1 everywhere; in
\* mode 'elevation' the weight is 1/sin^2(el), and 1 when sin(el) <= 0; in
\* mode 'snr' an observation below 30 dB-Hz has a strictly smaller weight
\* than one above 45 dB-Hz.
C26_WeightFollowsMode ==
    /\ w_mode = "equal" => \A i \in 1..Len(W) : W[i] = 1
    /\ w_mode = "elevation" =>
          \A i \in 1..Len(W) :
             W[i] = IF w_obs[i].elevation > 0
                    THEN InvSinSquared(w_obs[i].elevation) ELSE 1
    /\ w_mode = "snr" =>
          \A i, j \in 1..Len(W) :
             (w_obs[i].snr < 30 /\ w_obs[j].snr > 45) => W[i] < W[j]


(***************************************************************************)
(* Claims about the satellites of a fragment (SpecFrag).                   *)
(***************************************************************************)
\* the receiver positions that the satellites of the fragment read
FragReads ==
    {frag_sats[i].pos_read : i \in 1..Len(frag_sats)}
        \cup {frag_sats[i].azel_read : i \in 1..Len(frag_sats)}

\* C27: the satellites of one fragment are computed against one snapshot of
\* the approximate receiver position, also while the other decoder thread
\* processes a 1005/1006: no two reads made for the fragment differ, and no
\* satellite has a position but no azimuth/elevation.
C27_OneSnapshotPerFragment ==
    frag_pc = "done" =>
        /\ Cardinality(FragReads \ {"-"}) <= 1
        /\ \A i \in 1..Len(frag_sats) :
              frag_sats[i].sat_pos_ecef # "None" => frag_sats[i].azel = "set"


(***************************************************************************)
(* Claims about the GLONASS propagation (SpecRK, FairSpecRK).              *)
(***************************************************************************)
RECURSIVE SumSeq(_)
SumSeq(q) == IF q = <<>> THEN 0 ELSE Head(q) + SumSeq(Tail(q))

\* every step points from tb towards the target, has magnitude at most 30 s,
\* and every step but the last has magnitude 30 s; at the return the steps
\* sum to t_target - tb, and none was taken when t_target = tb
C28_Steps ==
    /\ \A i \in 1..Len(rk_steps) :
          /\ rk_steps[i] # 0
          /\ (rk_steps[i] > 0) = (t_target > toe)
          /\ Abs(rk_steps[i]) <= StepSize
          /\ i < Len(rk_steps) => Abs(rk_steps[i]) = StepSize
    /\ rk_pc = "test" => \A i \in 1..Len(rk_steps) : Abs(rk_steps[i]) = StepSize
    /\ rk_pc = "returned" =>
          /\ SumSeq(rk_steps) = t_target - toe
          /\ rk_t = t_target
          /\ t_target = toe => rk_steps = <<>>

\* C28: the propagation terminates for every target time; all steps point
\* from tb towards t_target, each has magnitude at most 30 s, only the last
\* one is shrunk, and the steps sum exactly to t_target - tb; for
\* t_target = tb no step is taken, so the initial state is returned.
C28_PropagationTerminates ==
    /\ []C28_Steps
    /\ (rk_pc = "test") ~> (rk_pc = "returned")

C28_Witness ==
    /\ rk_pc = "returned"
    /\ t_target < toe
    /\ Len(rk_steps) = 3
    /\ Abs(rk_steps[3]) < StepSize


(***************************************************************************)
(* Claim about the blocking put (FairSpecRB).                              *)
(***************************************************************************)
\* thread th returns from the wait of a blocking put and appends its item
ResumedPutAppends(th) ==
    /\ pc[th] = "put_notified"
    /\ pc'[th] = "idle"
    /\ buffer' # buffer

\* C29: a blocking put never discards a buffered item: when it appends after
\* its wait (woken by a get, clear or close) the buffer holds fewer than
\* maxsize items and keeps them all; the buffer never holds more than
\* maxsize items.
C29_BlockingPutNeverDiscards ==
    /\ [](Len(buffer) <= maxsize)
    /\ [][\A th \in Threads :
            ResumedPutAppends(th) =>
                /\ Len(buffer) < maxsize
                /\ buffer' = Append(buffer, arg[th].item)]_vars


(***************************************************************************)
(* Claim about the statistics of a solution (SpecStat).                    *)
(***************************************************************************)
AllZero(q) == \A i \in 1..Len(q) : q[i] = 0

\* C30: a solution from exactly 4 observations has variance of unit weight
\* 0 and reports all DOP values and all standard deviations as 0; a DOP
\* value is non-zero only when there are more than 4 observations and the
\* residuals are not all zero.
C30_FourObservationsReportZero ==
    /\ (stat_done /\ Len(residuals_final) = 4) =>
          variance_uow = 0 /\ AllZero(dops) /\ AllZero(std_devs)
    /\ ~AllZero(dops) =>
          Len(residuals_final) > 4 /\ ~AllZero(residuals_final)

C30_Witness ==
    /\ stat_done
    /\ Len(residuals_final) = 4
    /\ ~AllZero(residuals_final)
    /\ cov_matrix # <<>>

====
